---- MODULE Spec2Model ----
(***************************************************************************)
(* Model of the resilient paginated fetch engine of bird:                  *)
(*   src/src/lib/twitter-client-timelines.ts                               *)
(* getBookmarksPaged, getBookmarkFolderTimelinePaged, getLikes and         *)
(* fetchWithRetry, as one invocation on one client.  A step of the model   *)
(* is the code that runs between two suspension points (await) of the      *)
(* invocation.                                                             *)
(***************************************************************************)
EXTENDS Integers, Sequences, FiniteSets, TLC

(***************************************************************************)
(* Bounds of the model.                                                    *)
(***************************************************************************)
\* largest finite limit (count) a caller passes
MaxLimit == 2
\* longest page the provider answers with
MaxPageLen == 2
\* pages after which the model stops following an endless provider
MaxPagesFetched == 2
\* calls of an invocation that the provider fails when two invocations run
MaxPairCalls == 2
\* pages for which the model follows a driver that has no page ceiling
MaxLoopPages == 3
\* longest retry-after header value, in characters (a calendar date aside)
MaxHeaderLen == 3
\* longest value of a command-line option, in characters
MaxOptionLen == 2
\* longest run of digits in a string handed to extractTweetId
MaxIdLen == 2

(***************************************************************************)
(* Program constants.                                                      *)
(***************************************************************************)
pageSize == 20
maxRetries == 2
baseDelayMs == 500
\* text.slice(0, 200): the characters of a body an error string keeps
errorBodyChars == 200
retryable == {429, 500, 502, 503, 504}

\* Number.POSITIVE_INFINITY, the limit getAllBookmarks passes
Infinity == 0 - 1
isFinite(n) == n # Infinity

\* undefined (no cursor, no maxPages is 0: both are falsy in the code)
None == "none"
Nil == [nil |-> TRUE]
NoError == [type |-> "undefined"]

Ops == {"Bookmarks", "BookmarkFolderTimeline", "Likes"}

\* the static fallback query ids of each operation
Fallbacks(o) ==
    CASE o = "Bookmarks" -> <<"RV1g3b8n_SGOHwkqKYSCFw", "tmd4ifV8RHltzn8ymGg1aw">>
      [] o = "BookmarkFolderTimeline" -> <<"KJIQpsvxrTfRIlbaRIySHQ">>
      [] o = "Likes" -> <<"JR2gceKucIKcVNB_9JkhsA">>

\* the name the last-resort error carries
UnknownError(o) ==
    CASE o = "Bookmarks" -> [type |-> "text", text |-> "Unknown error fetching bookmarks"]
      [] o = "BookmarkFolderTimeline" ->
            [type |-> "text", text |-> "Unknown error fetching bookmark folder"]
      [] o = "Likes" -> [type |-> "text", text |-> "Unknown error fetching likes"]

CursorRejected ==
    [type |-> "text", text |-> "Bookmark folder pagination rejected the cursor parameter"]

(***************************************************************************)
(* What the collaborators can answer.                                      *)
(***************************************************************************)
TweetIds == {"t1", "t2", "t3"}
Cursors == {"c1", "c2"}
CountMsg == "Variable \"$count\""
CursorMsg == "Variable \"$cursor\""
\* the messages of a provider error list: only the folder code reads them
Messages(o) ==
    IF o = "BookmarkFolderTimeline" THEN {"Internal error", CountMsg, CursorMsg}
    ELSE {"Internal error"}
\* the query id a cache holds: one of its own, or one that coincides with a
\* fallback
PrimaryIds(o) == {"resolved"} \cup {Fallbacks(o)[i] : i \in 1..Len(Fallbacks(o))}

SeqsUpTo(S, n) == UNION {[1..k -> S] : k \in 0..n}

Pages == SeqsUpTo(TweetIds, MaxPageLen)

NoInstructions == [present |-> FALSE, tweets |-> <<>>, cursor |-> None]
Instructions ==
    [present : {TRUE}, tweets : Pages, cursor : Cursors \cup {None}]

\* a transport call that raised (timeout, network error)
\* the characters of the messages a body is made of
Length(m) ==
    CASE m = "Internal error" -> 14
      [] m = "Over capacity" -> 13
      [] m = CountMsg -> 17
      [] m = CursorMsg -> 18
\* a text of pad other characters followed by the first kept characters of
\* the message text
Body(pad, m) == [pad |-> pad, text |-> m, kept |-> Length(m)]
\* what a body holds before its message: nothing, or so much that the
\* message crosses the character an error string is cut at
Paddings == {0, errorBodyChars - 10}

Thrown == [kind |-> "throw", message |-> "fetch failed"]
NotFound == [kind |-> "http", status |-> 404]
Forbidden(o) ==
    [kind : {"http"}, status : {403},
     body : {Body(pad, m) : pad \in Paddings, m \in Messages(o)}]
Overloaded ==
    [kind : {"http"}, status : retryable, body : {Body(0, "Over capacity")}]
Unparseable == [kind |-> "http", status |-> 200, json |-> FALSE]

\* the values of a retry-after header, as strings of characters: digits,
\* signs, blanks and letters in every order, and a calendar date
HeaderChars == {"0", "1", "9", " ", "-", "W"}
HttpDate ==
    <<"W", "e", "d", ",", " ", "2", "1", " ", "O", "c", "t", " ",
      "2", "0", "1", "5", " ", "0", "7", ":", "2", "8", ":", "0", "0", " ",
      "G", "M", "T">>
Headers == SeqsUpTo(HeaderChars, MaxHeaderLen) \cup {HttpDate}
\* a retryable answer with a retry-after header
Hinted ==
    [kind : {"http"}, status : {503}, body : {Body(0, "Over capacity")},
     retryAfter : Headers]
\* Math.floor(Math.random() * baseDelayMs), Math.random() in [0, 1)
Jitter == 0..(baseDelayMs - 1)
\* 200 with a provider error list and no page structure
ErrorsOnly(o) ==
    [kind : {"http"}, status : {200}, json : {TRUE},
     errors : {<<m>> : m \in Messages(o)}, instructions : {NoInstructions}]
\* 200 with the page structures of I, with and without a provider error list
PageResponses(I) ==
    [kind : {"http"}, status : {200}, json : {TRUE},
     errors : {<<>>, <<"Internal error">>}, instructions : I]
CleanPageResponses(I) ==
    [kind : {"http"}, status : {200}, json : {TRUE}, errors : {<<>>}, instructions : I]

\* the answers the Retry Wrapper is run against: retryable with and without
\* a header, and a page
RetryResponses ==
    Hinted \cup {[kind |-> "http", status |-> 503, body |-> Body(0, "Over capacity")]}
    \cup CleanPageResponses({[present |-> TRUE, tweets |-> <<"t1">>, cursor |-> None]})

\* the answers the pagination driver is run against: every page, and one
\* answer of each kind the driver can tell apart
DriverResponses(o) ==
    {NotFound, [kind |-> "http", status |-> 403, body |-> Body(0, "Internal error")]}
    \cup CleanPageResponses(Instructions)

\* the answers one page request is run against: every kind of answer, and
\* few pages
FewInstructions ==
    {NoInstructions,
     [present |-> TRUE, tweets |-> <<>>, cursor |-> None],
     [present |-> TRUE, tweets |-> <<"t1">>, cursor |-> "c1"]}
FetchResponses(o) ==
    {Thrown, NotFound, Unparseable} \cup Forbidden(o) \cup Overloaded
    \cup ErrorsOnly(o) \cup PageResponses(FewInstructions)

\* a provider whose collection is fixed: the page it serves for each token
\* (None: the first page)
CollectionPages ==
    [present : {TRUE},
     tweets : SeqsUpTo(TweetIds, 1) \cup {<<"t1", "t2">>},
     cursor : Cursors \cup {None}]
Collections == [Cursors \cup {None} -> CollectionPages]
\* what such a provider answers a request that carries the token cur with
Served(pr, cur) ==
    [kind |-> "http", status |-> 200, json |-> TRUE, errors |-> <<>>,
     instructions |-> pr[cur]]

\* identities numbered in the provider's order: first, first + 1, ...
Window(first, n) == [i \in 1..n |-> first + i - 1]

\* budgets below, at and above the fixed page size
SizeLimits == {1, pageSize - 1, pageSize, pageSize + 1, pageSize + 5, Infinity}

\* the pages a provider answers a request for count items with, when the
\* driver holds held items: none, five or count items, which repeat the
\* provider's first items, overlap the last items held, or are all new
SizedInstructions(count, held) ==
    [present : {TRUE},
     tweets : {Window(first, n) : first \in {1, held, held + 1} \ {0},
                                  n \in {0, 5, count}},
     cursor : Cursors \cup {None}]

VARIABLES
    op,            \* the operation this invocation is for
    primary,       \* the client's cached query id of op
    pc,            \* where the invocation is suspended
    limit,         \* getBookmarksPaged(limit, ...)
    maxPages,      \* options.maxPages (0: not given)
    seen,          \* const seen = new Set<string>()
    tweets,        \* const tweets: TweetData[] = []
    cursor,        \* let cursor: string | undefined
    pagesFetched,  \* let pagesFetched = 0
    page,          \* const page = await fetchWithRefresh(...)
    result,        \* what the invocation returned
    f,             \* locals of fetchPage / tryOnce / fetchWithRetry
    firstAttempt,  \* fetchWithRefresh: const firstAttempt
    secondAttempt, \* fetchWithRefresh: const secondAttempt
    response,      \* fetchPage: const response = await this.fetchWithRetry(...)
    wire,          \* fetchWithRetry: const response = await this.fetchWithTimeout(...)
    h,             \* history of the current page request (observation only)
    provider,      \* the provider's collection, when its pages are fixed
    log,           \* the inputs the invocation has consumed (observation only)
    other,         \* the suspended invocation, when two run on the client
    cli,           \* the bookmarks command: its options, locals and output
    extract,       \* extractTweetId: its input and what its calls returned
    mutation       \* unbookmark: its locals, and the requests it has made

vars == <<op, primary, pc, limit, maxPages, seen, tweets, cursor, pagesFetched,
          page, result, f, firstAttempt, secondAttempt, response, wire, h,
          provider, log, other, cli, extract, mutation>>


(***************************************************************************)
(* Candidate Resolver.                                                     *)
(***************************************************************************)
RECURSIVE Dedupe(_, _)
\* Array.from(new Set(list)): first occurrences, in order
Dedupe(list, acc) ==
    IF list = <<>> THEN acc
    ELSE IF \E i \in 1..Len(acc) : acc[i] = Head(list)
         THEN Dedupe(Tail(list), acc)
         ELSE Dedupe(Tail(list), Append(acc, Head(list)))

\* mutant: the list without `new Set(...)`
queryIdsForNoSet(o, p) == <<p>> \o Fallbacks(o)

\* getBookmarksQueryIds / getBookmarkFolderQueryIds / getLikesQueryIds
queryIdsFor(o, p) == Dedupe(<<p>> \o Fallbacks(o), <<>>)

\* getQueryId(operation): the cached id (twitter-client-base, not in src/)
getQueryId(p) == p

\* refreshQueryIds(): re-resolves the cached id, or leaves it when discovery
\* fails; raises nothing (twitter-client-base, not in src/)
RefreshedIds(o, p) == {p} \cup PrimaryIds(o)

(***************************************************************************)
(* Response Extractor (twitter-client-utils, not in src/).                 *)
(***************************************************************************)
parseTweetsFromInstructions(instructions) ==
    IF instructions.present THEN instructions.tweets ELSE <<>>

extractCursorFromInstructions(instructions) ==
    IF instructions.present THEN instructions.cursor ELSE None

(***************************************************************************)
(* Error strings.                                                          *)
(***************************************************************************)
\* `HTTP ${response.status}`
HttpError(status) == [type |-> "http", status |-> status]
\* text.slice(0, n)
Slice(text, n) ==
    LET pad == IF text.pad < n THEN text.pad ELSE n
        kept == IF text.kept < n - pad THEN text.kept ELSE n - pad
    IN  [pad |-> pad, text |-> IF kept = 0 THEN "" ELSE text.text, kept |-> kept]

\* mutant: the error string keeps the whole body
HttpBodyErrorUncut(status, body) ==
    [type |-> "httpBody", status |-> status, body |-> body]

\* `HTTP ${response.status}: ${text.slice(0, 200)}`
HttpBodyError(status, body) ==
    [type |-> "httpBody", status |-> status, body |-> Slice(body, errorBodyChars)]
\* data.errors.map((e) => e.message).join(', ')
JoinedErrors(errors) == [type |-> "joined", messages |-> errors]
\* error instanceof Error ? error.message : String(error)
ExceptionError(message) == [type |-> "text", text |-> message]

\* error.includes(needle)
Includes(error, needle) ==
    CASE error.type = "httpBody" ->
            error.body.text = needle /\ error.body.kept = Length(needle)
      [] error.type = "joined" ->
            \E i \in 1..Len(error.messages) : error.messages[i] = needle
      [] error.type = "text" -> error.text = needle
      [] OTHER -> FALSE

(***************************************************************************)
(* Transient Retry Wrapper: fetchWithRetry.                                *)
(***************************************************************************)
\* mutant: the loop without `attempt === maxRetries`
RetryAgainNoCeiling(status, attempt) == status \in retryable

\* a number of the language: an integer, or NaN
Num(n) == [finite |-> TRUE, value |-> n]
NaN == [finite |-> FALSE, value |-> 0]
NumberIsFinite(n) == n.finite
Times(n, k) == IF n.finite THEN Num(n.value * k) ELSE NaN

DecimalDigits == <<"0", "1", "2", "3", "4", "5", "6", "7", "8", "9">>
IsDigit(c) == \E i \in 1..10 : DecimalDigits[i] = c
DigitValue(c) == (CHOOSE i \in 1..10 : DecimalDigits[i] = c) - 1

RECURSIVE TrimStart(_)
\* the string without its leading white space
TrimStart(str) ==
    IF str # <<>> /\ Head(str) = " " THEN TrimStart(Tail(str)) ELSE str

RECURSIVE LeadingDigits(_)
\* the longest prefix of str made of digits
LeadingDigits(str) ==
    IF str # <<>> /\ IsDigit(Head(str))
    THEN <<Head(str)>> \o LeadingDigits(Tail(str))
    ELSE <<>>

RECURSIVE Decimal(_, _)
\* the number the digits denote, after acc
Decimal(digits, acc) ==
    IF digits = <<>> THEN acc
    ELSE Decimal(Tail(digits), 10 * acc + DigitValue(Head(digits)))

\* Number.parseInt(str, 10): white space, a sign, the longest run of digits;
\* NaN without a digit
parseInt(str) ==
    LET t == TrimStart(str)
        signed == t # <<>> /\ Head(t) \in {"+", "-"}
        digits == LeadingDigits(IF signed THEN Tail(t) ELSE t)
    IN  IF digits = <<>> THEN NaN
        ELSE IF signed /\ Head(t) = "-" THEN Num(0 - Decimal(digits, 0))
        ELSE Num(Decimal(digits, 0))

\* response.headers.get('retry-after') is a non-empty string
HasRetryAfter(resp) == "retryAfter" \in DOMAIN resp /\ resp.retryAfter # <<>>

\* mutant: baseDelayMs * 2 * attempt for baseDelayMs * 2 ** attempt
ExponentialLinear(attempt, random) == baseDelayMs * 2 * attempt + random

\* baseDelayMs * 2 ** attempt + Math.floor(Math.random() * baseDelayMs)
Exponential(attempt, random) == baseDelayMs * 2 ^ attempt + random

\* mutant: the jitter is added to the hinted delay too
backoffMsJittered(resp, attempt, J) ==
    LET retryAfterMs == IF HasRetryAfter(resp)
                        THEN Times(parseInt(resp.retryAfter), 1000) ELSE NaN
    IN  IF NumberIsFinite(retryAfterMs)
        THEN {retryAfterMs.value + random : random \in J}
        ELSE {Exponential(attempt, random) : random \in J}

\* const backoffMs = Number.isFinite(retryAfterMs) ? retryAfterMs : ...
\* the values it can take when Math.floor(Math.random() * baseDelayMs), which
\* only the second branch evaluates, is in J
backoffMs(resp, attempt, J) ==
    LET retryAfterMs == IF HasRetryAfter(resp)
                        THEN Times(parseInt(resp.retryAfter), 1000) ELSE NaN
    IN  IF NumberIsFinite(retryAfterMs) THEN {retryAfterMs.value}
        ELSE {Exponential(attempt, random) : random \in J}

\* mutant: `attempt > maxRetries` for `attempt === maxRetries`
RetryAgainOnceMore(status, attempt) ==
    ~(status \notin retryable \/ attempt > maxRetries)

\* the loop goes on to the backoff wait and another attempt
RetryAgain(status, attempt) ==
    ~(status \notin retryable \/ attempt = maxRetries)

(***************************************************************************)
(* Page Fetcher: the body of the candidate loop, for one candidate whose   *)
(* request came back as resp (or raised).                                  *)
(*   k = "continue": go on with the next candidate                         *)
(*   k = "fail":     return { success: false, error, had404 }              *)
(*   k = "success":  return { success: true, tweets, cursor, had404 }      *)
(*   k = "throw":    the exception leaves the function                     *)
(***************************************************************************)
Outcome(k, set404, error, tw, cur) ==
    [k |-> k, set404 |-> set404, error |-> error, tweets |-> tw, cursor |-> cur]

\* mutant: the candidate's request outside the try block
Rethrown(message) == Outcome("throw", FALSE, ExceptionError(message), <<>>, None)

\* mutant: the catch block sets had404 like the 404 branch
CaughtAsNotFound(message) ==
    Outcome("continue", TRUE, ExceptionError(message), <<>>, None)

\* catch (error) { lastError = ... }
Caught(message) == Outcome("continue", FALSE, ExceptionError(message), <<>>, None)

\* mutant: a 404 ends the pass like every other non-2xx status
PagedCandidate404Fails(resp) ==
    IF resp.kind = "throw" THEN Caught(resp.message)
    ELSE IF resp.status = 404
    THEN Outcome("fail", TRUE, HttpError(resp.status), <<>>, None)
    ELSE IF resp.status # 200
    THEN Outcome("fail", FALSE, HttpBodyError(resp.status, resp.body), <<>>, None)
    ELSE IF ~resp.json THEN Caught("Unexpected token in JSON")
    ELSE IF Len(resp.errors) > 0 /\ ~resp.instructions.present
    THEN Outcome("continue", FALSE, JoinedErrors(resp.errors), <<>>, None)
    ELSE Outcome("success", FALSE, NoError,
                 parseTweetsFromInstructions(resp.instructions),
                 extractCursorFromInstructions(resp.instructions))

\* mutant: a provider error list without page structure ends the pass
PagedCandidateErrorsFail(resp) ==
    IF resp.kind = "throw" THEN Caught(resp.message)
    ELSE IF resp.status = 404
    THEN Outcome("continue", TRUE, HttpError(resp.status), <<>>, None)
    ELSE IF resp.status # 200
    THEN Outcome("fail", FALSE, HttpBodyError(resp.status, resp.body), <<>>, None)
    ELSE IF ~resp.json THEN Caught("Unexpected token in JSON")
    ELSE IF Len(resp.errors) > 0 /\ ~resp.instructions.present
    THEN Outcome("fail", FALSE, JoinedErrors(resp.errors), <<>>, None)
    ELSE Outcome("success", FALSE, NoError,
                 parseTweetsFromInstructions(resp.instructions),
                 extractCursorFromInstructions(resp.instructions))

\* mutant: the error list is tested without `&& !instructions`
PagedCandidateErrorsFirst(resp) ==
    IF resp.kind = "throw" THEN Caught(resp.message)
    ELSE IF resp.status = 404
    THEN Outcome("continue", TRUE, HttpError(resp.status), <<>>, None)
    ELSE IF resp.status # 200
    THEN Outcome("fail", FALSE, HttpBodyError(resp.status, resp.body), <<>>, None)
    ELSE IF ~resp.json THEN Caught("Unexpected token in JSON")
    ELSE IF Len(resp.errors) > 0
    THEN Outcome("continue", FALSE, JoinedErrors(resp.errors), <<>>, None)
    ELSE Outcome("success", FALSE, NoError,
                 parseTweetsFromInstructions(resp.instructions),
                 extractCursorFromInstructions(resp.instructions))

\* mutant: a 200 without page structure sends the loop to the next candidate
PagedCandidateNeedsPage(resp) ==
    IF resp.kind = "throw" THEN Caught(resp.message)
    ELSE IF resp.status = 404
    THEN Outcome("continue", TRUE, HttpError(resp.status), <<>>, None)
    ELSE IF resp.status # 200
    THEN Outcome("fail", FALSE, HttpBodyError(resp.status, resp.body), <<>>, None)
    ELSE IF ~resp.json THEN Caught("Unexpected token in JSON")
    ELSE IF ~resp.instructions.present
    THEN Outcome("continue", FALSE, JoinedErrors(resp.errors), <<>>, None)
    ELSE Outcome("success", FALSE, NoError,
                 parseTweetsFromInstructions(resp.instructions),
                 extractCursorFromInstructions(resp.instructions))

\* getBookmarksPaged.fetchPage and getBookmarkFolderTimelinePaged.tryOnce
PagedCandidate(resp) ==
    IF resp.kind = "throw" THEN Caught(resp.message)
    ELSE IF resp.status = 404
    THEN Outcome("continue", TRUE, HttpError(resp.status), <<>>, None)
    ELSE IF resp.status # 200
    THEN Outcome("fail", FALSE, HttpBodyError(resp.status, resp.body), <<>>, None)
    ELSE IF ~resp.json THEN Caught("Unexpected token in JSON")
    ELSE LET instructions == resp.instructions
             pageTweets == parseTweetsFromInstructions(instructions)
             nextCursor == extractCursorFromInstructions(instructions)
         IN  IF Len(resp.errors) > 0 /\ ~instructions.present
             THEN Outcome("continue", FALSE, JoinedErrors(resp.errors), <<>>, None)
             ELSE Outcome("success", FALSE, NoError, pageTweets, nextCursor)

\* mutant: getLikes treats a provider error list as the paged fetchers do
LikesCandidateTolerant(resp) ==
    IF resp.kind = "throw" THEN Caught(resp.message)
    ELSE IF resp.status = 404
    THEN Outcome("continue", TRUE, HttpError(resp.status), <<>>, None)
    ELSE IF resp.status # 200
    THEN Outcome("fail", FALSE, HttpBodyError(resp.status, resp.body), <<>>, None)
    ELSE IF ~resp.json THEN Caught("Unexpected token in JSON")
    ELSE IF Len(resp.errors) > 0 /\ ~resp.instructions.present
    THEN Outcome("continue", FALSE, JoinedErrors(resp.errors), <<>>, None)
    ELSE Outcome("success", FALSE, NoError,
                 parseTweetsFromInstructions(resp.instructions), None)

\* getLikes.tryOnce
LikesCandidate(resp) ==
    IF resp.kind = "throw" THEN Caught(resp.message)
    ELSE IF resp.status = 404
    THEN Outcome("continue", TRUE, HttpError(resp.status), <<>>, None)
    ELSE IF resp.status # 200
    THEN Outcome("fail", FALSE, HttpBodyError(resp.status, resp.body), <<>>, None)
    ELSE IF ~resp.json THEN Caught("Unexpected token in JSON")
    ELSE IF Len(resp.errors) > 0
    THEN Outcome("fail", FALSE, JoinedErrors(resp.errors), <<>>, None)
    ELSE Outcome("success", FALSE, NoError,
                 parseTweetsFromInstructions(resp.instructions), None)

Candidate(o, resp) ==
    IF o = "Likes" THEN LikesCandidate(resp) ELSE PagedCandidate(resp)

(***************************************************************************)
(* Pagination Driver: the pieces of the while loop.                        *)
(***************************************************************************)
\* mutant: `tweets.length + 1 < limit` for `tweets.length < limit`
LoopConditionOffByOne(lim, tw) == ~isFinite(lim) \/ Len(tw) + 1 < lim

\* mutant: `tweets.length <= limit` for `tweets.length < limit`
LoopConditionInclusive(lim, tw) == ~isFinite(lim) \/ Len(tw) <= lim

\* while (unlimited || tweets.length < limit)
LoopCondition(lim, tw) == ~isFinite(lim) \/ Len(tw) < lim

Min(a, b) == IF a < b THEN a ELSE b

\* mutant: Math.min(pageSize, limit) for Math.min(pageSize, limit - tweets.length)
PageCountIgnoresCollected(lim, tw) ==
    IF ~isFinite(lim) THEN pageSize ELSE Min(pageSize, lim)

\* const pageCount = unlimited ? pageSize : Math.min(pageSize, limit - tweets.length)
PageCount(lim, tw) ==
    IF ~isFinite(lim) THEN pageSize ELSE Min(pageSize, lim - Len(tw))

RECURSIVE MergeFrom(_, _, _, _, _)
\* for (const tweet of page.tweets) { ... } from index i on
MergeFrom(tw, sn, pageTweets, i, lim) ==
    IF i > Len(pageTweets) THEN [tweets |-> tw, seen |-> sn]
    ELSE IF pageTweets[i] \in sn THEN MergeFrom(tw, sn, pageTweets, i + 1, lim)
    ELSE LET tw2 == Append(tw, pageTweets[i])
             sn2 == sn \cup {pageTweets[i]}
         IN  IF isFinite(lim) /\ Len(tw2) >= lim
             THEN [tweets |-> tw2, seen |-> sn2]
             ELSE MergeFrom(tw2, sn2, pageTweets, i + 1, lim)

RECURSIVE MergeFromNoBreak(_, _, _, _)
\* mutant: the loop without `if (!unlimited && tweets.length >= limit) break`
MergeFromNoBreak(tw, sn, pageTweets, i) ==
    IF i > Len(pageTweets) THEN [tweets |-> tw, seen |-> sn]
    ELSE IF pageTweets[i] \in sn THEN MergeFromNoBreak(tw, sn, pageTweets, i + 1)
    ELSE MergeFromNoBreak(Append(tw, pageTweets[i]), sn \cup {pageTweets[i]},
                          pageTweets, i + 1)
MergePageNoBreak(tw, sn, pageTweets, lim) == MergeFromNoBreak(tw, sn, pageTweets, 1)

\* mutant: the loop without `if (seen.has(tweet.id)) continue`
MergePageNoSeenCheck(tw, sn, pageTweets, lim) ==
    LET room == IF isFinite(lim) THEN Min(Len(pageTweets), lim - Len(tw))
                ELSE Len(pageTweets)
        taken == SubSeq(pageTweets, 1, room)
    IN  [tweets |-> tw \o taken, seen |-> sn \cup {taken[i] : i \in 1..Len(taken)}]

\* mutant: tweets.unshift(tweet) for tweets.push(tweet)
MergePageUnshift(tw, sn, pageTweets, lim) ==
    LET m == MergeFrom(<<>>, sn, pageTweets, 1,
                       IF isFinite(lim) THEN lim - Len(tw) ELSE lim)
    IN  [tweets |-> m.tweets \o tw, seen |-> m.seen]

MergePage(tw, sn, pageTweets, lim) == MergeFrom(tw, sn, pageTweets, 1, lim)

\* mutant: the break without `page.cursor === cursor`
StopAfterPageNoEcho(pageCursor, cur, pageTweets) ==
    pageCursor = None \/ Len(pageTweets) = 0

\* mutant: the break without `page.tweets.length === 0`
StopAfterPageNoEmpty(pageCursor, cur, pageTweets) ==
    pageCursor = None \/ pageCursor = cur

\* if (!page.cursor || page.cursor === cursor || page.tweets.length === 0) break
StopAfterPage(pageCursor, cur, pageTweets) ==
    pageCursor = None \/ pageCursor = cur \/ Len(pageTweets) = 0

\* mutant: `pagesFetched > maxPages` for `pagesFetched >= maxPages`
ReachedCeilingOffByOne(mp, fetched) == mp # 0 /\ fetched > mp

\* if (maxPages && pagesFetched >= maxPages) break
ReachedCeiling(mp, fetched) == mp # 0 /\ fetched >= mp

Success(tw) == [success |-> TRUE, tweets |-> tw]
Failure(error) == [success |-> FALSE, error |-> error]


(***************************************************************************)
(* The invocation's state as one record, so that the code between two      *)
(* suspension points composes as functions from state to state.            *)
(***************************************************************************)
State ==
    [op |-> op, primary |-> primary, pc |-> pc, limit |-> limit,
     maxPages |-> maxPages, seen |-> seen, tweets |-> tweets, cursor |-> cursor,
     pagesFetched |-> pagesFetched, page |-> page, result |-> result, f |-> f,
     firstAttempt |-> firstAttempt, secondAttempt |-> secondAttempt,
     response |-> response, wire |-> wire, h |-> h, provider |-> provider,
     log |-> log, other |-> other, cli |-> cli, extract |-> extract,
     mutation |-> mutation]

Install(n) ==
    /\ op' = n.op /\ primary' = n.primary /\ pc' = n.pc /\ limit' = n.limit
    /\ maxPages' = n.maxPages /\ seen' = n.seen /\ tweets' = n.tweets
    /\ cursor' = n.cursor /\ pagesFetched' = n.pagesFetched /\ page' = n.page
    /\ result' = n.result /\ f' = n.f /\ firstAttempt' = n.firstAttempt
    /\ secondAttempt' = n.secondAttempt /\ response' = n.response
    /\ wire' = n.wire /\ h' = n.h /\ provider' = n.provider
    /\ log' = n.log /\ other' = n.other /\ cli' = n.cli
    /\ extract' = n.extract /\ mutation' = n.mutation

\* the locals of a fetchPage call (of a getLikes.tryOnce call) as it starts
Frame(pass, pageCount, pageCursor) ==
    [pass |-> pass, pageCount |-> pageCount, pageCursor |-> pageCursor,
     includeCount |-> TRUE, queryIds |-> <<>>, qi |-> 0, attempt |-> 0,
     had404 |-> FALSE, lastError |-> NoError]

\* the transport calls of a page request are counted only where the count
\* was started
Uncounted == 0 - 1

\* nothing observed yet of a page request
NoHistory ==
    [refreshes |-> 0, passes |-> 0, runs |-> 0, calls |-> 0, total |-> Uncounted,
     saw404 |-> FALSE, sawOther |-> FALSE, firstOnly404 |-> FALSE,
     echoed |-> FALSE, countNamed |-> FALSE, cursorNamed |-> FALSE,
     sent |-> Nil, returned |-> Nil, waited |-> Nil]

\* fetchWithRefresh(pageCount, cursor) is called and runs to its first await
CallFetchWithRefresh(s, pageCount) ==
    [s EXCEPT !.pc = "resolve", !.f = Frame(1, pageCount, s.cursor)]

\* the head of the while loop, down to the first await of the page request,
\* or to the return after the loop
EnterLoop(s) ==
    IF LoopCondition(s.limit, s.tweets)
    THEN CallFetchWithRefresh(s, PageCount(s.limit, s.tweets))
    ELSE [s EXCEPT !.pc = "done", !.result = Success(s.tweets)]

\* mutant: a failing page returns what was collected so far
PageFailedKeepsItems(s, pg) ==
    [s EXCEPT !.pc = "done",
              !.result = [success |-> FALSE, error |-> pg.error, tweets |-> s.tweets]]

\* if (!page.success) { return { success: false, error: page.error }; }
PageFailed(s, pg) == [s EXCEPT !.pc = "done", !.result = Failure(pg.error)]

\* mutant: the loop without `cursor = page.cursor`
DeliverStaleCursor(s, pg) ==
    LET s1 == [s EXCEPT !.page = pg,
                   !.h.echoed = /\ pg.success /\ pg.cursor # None
                                /\ pg.cursor = s.f.pageCursor]
    IN  IF ~pg.success
        THEN PageFailed(s1, pg)
        ELSE LET fetched == s.pagesFetched + 1
                 m == MergePage(s.tweets, s.seen, pg.tweets, s.limit)
                 s2 == [s1 EXCEPT !.pagesFetched = fetched,
                                  !.tweets = m.tweets, !.seen = m.seen]
             IN  IF \/ StopAfterPage(pg.cursor, s.cursor, pg.tweets)
                    \/ ReachedCeiling(s.maxPages, fetched)
                 THEN [s2 EXCEPT !.pc = "done", !.result = Success(m.tweets)]
                 ELSE EnterLoop(s2)

\* mutant: the stop check before the merge loop
DeliverStopBeforeMerge(s, pg) ==
    LET s1 == [s EXCEPT !.page = pg,
                   !.h.echoed = /\ pg.success /\ pg.cursor # None
                                /\ pg.cursor = s.f.pageCursor]
    IN  IF ~pg.success
        THEN PageFailed(s1, pg)
        ELSE LET fetched == s.pagesFetched + 1
                 m == MergePage(s.tweets, s.seen, pg.tweets, s.limit)
                 s2 == [s1 EXCEPT !.pagesFetched = fetched,
                                  !.tweets = m.tweets, !.seen = m.seen]
             IN  IF StopAfterPage(pg.cursor, s.cursor, pg.tweets)
                 THEN [s1 EXCEPT !.pagesFetched = fetched, !.pc = "done",
                                 !.result = Success(s.tweets)]
                 ELSE IF ReachedCeiling(s.maxPages, fetched)
                 THEN [s2 EXCEPT !.pc = "done", !.result = Success(m.tweets)]
                 ELSE EnterLoop([s2 EXCEPT !.cursor = pg.cursor])

\* the driver's loop body after `const page = await fetchWithRefresh(...)`
Deliver(s, pg) ==
    LET s1 == [s EXCEPT !.page = pg,
                   !.h.echoed = /\ pg.success /\ pg.cursor # None
                                /\ pg.cursor = s.f.pageCursor]
    IN  IF ~pg.success
        THEN PageFailed(s1, pg)
        ELSE LET fetched == s.pagesFetched + 1
                 m == MergePage(s.tweets, s.seen, pg.tweets, s.limit)
                 s2 == [s1 EXCEPT !.pagesFetched = fetched,
                                  !.tweets = m.tweets, !.seen = m.seen]
             IN  IF \/ StopAfterPage(pg.cursor, s.cursor, pg.tweets)
                    \/ ReachedCeiling(s.maxPages, fetched)
                 THEN [s2 EXCEPT !.pc = "done", !.result = Success(m.tweets)]
                 ELSE EnterLoop([s2 EXCEPT !.cursor = pg.cursor])

\* the value getLikes / fetchWithRefresh returns reaches its caller
Return(s, pg) ==
    IF s.op = "Likes"
    THEN [s EXCEPT !.pc = "done",
                   !.result = IF pg.success THEN Success(pg.tweets)
                              ELSE Failure(pg.error)]
    ELSE Deliver(s, pg)

\* mutant: every failed first pass is refreshed
RefreshAlways(attempt) == TRUE

\* if (firstAttempt.had404) { await this.refreshQueryIds(); ... }
RefreshEligible(attempt) == attempt.had404

\* mutant: fetchWithRefresh calls itself after the refresh
FetchPageDoneRecursive(s, r) ==
    LET s1 == IF s.f.pass = 1 THEN [s EXCEPT !.firstAttempt = r]
              ELSE [s EXCEPT !.secondAttempt = r]
    IN  IF r.success THEN Return(s1, r)
        ELSE IF RefreshEligible(r) THEN [s1 EXCEPT !.pc = "refresh"]
        ELSE Return(s1, Failure(r.error))

\* mutant: a failed second pass reports the first pass's error
FetchPageDoneFirstError(s, r) ==
    IF s.f.pass = 1
    THEN LET s1 == [s EXCEPT !.firstAttempt = r]
         IN  IF r.success THEN Return(s1, r)
             ELSE IF RefreshEligible(r) THEN [s1 EXCEPT !.pc = "refresh"]
             ELSE Return(s1, Failure(r.error))
    ELSE LET s1 == [s EXCEPT !.secondAttempt = r]
         IN  IF r.success THEN Return(s1, r)
             ELSE Return(s1, Failure(s.firstAttempt.error))

\* fetchWithRefresh (getLikes) after `await fetchPage(...)` (`await tryOnce()`)
FetchPageDone(s, r) ==
    IF s.f.pass = 1
    THEN LET s1 == [s EXCEPT !.firstAttempt = r]
         IN  IF r.success THEN Return(s1, r)
             ELSE IF RefreshEligible(r) THEN [s1 EXCEPT !.pc = "refresh"]
             ELSE Return(s1, Failure(r.error))
    ELSE LET s1 == [s EXCEPT !.secondAttempt = r]
         IN  IF r.success THEN Return(s1, r)
             ELSE Return(s1, Failure(r.error))

\* getBookmarkFolderTimelinePaged.fetchPage after `await tryOnce(...)`
FolderFetchPageTail(s, r) ==
    IF s.f.includeCount /\ ~r.success /\ Includes(r.error, CountMsg)
    THEN [s EXCEPT !.f.includeCount = FALSE, !.f.qi = 1, !.f.attempt = 0,
                   !.pc = "request", !.h.runs = @ + 1]
    ELSE IF ~r.success /\ Includes(r.error, CursorMsg) /\ s.f.pageCursor # None
    THEN FetchPageDone(s, [success |-> FALSE, error |-> CursorRejected,
                           had404 |-> r.had404])
    ELSE FetchPageDone(s, r)

\* the candidate loop returned r
TryOnceDone(s, r) ==
    LET s1 == [s EXCEPT !.h.returned = r]
    IN  IF s.op = "BookmarkFolderTimeline" THEN FolderFetchPageTail(s1, r)
        ELSE FetchPageDone(s1, r)

\* what the history records of a candidate's error: it names the count
\* parameter of a request that carried it, the cursor parameter of a request
\* that carried it
NamesCount(s, o) ==
    o.k \in {"continue", "fail"} /\ s.f.includeCount /\ Includes(o.error, CountMsg)
NamesCursor(s, o) ==
    o.k \in {"continue", "fail"} /\ s.f.pageCursor # None
    /\ Includes(o.error, CursorMsg)

\* the candidate loop's body for the candidate whose request ended as resp
AfterCandidate(s, resp) ==
    LET o == Candidate(s.op, resp)
        had == s.f.had404 \/ o.set404
        last == IF o.k = "continue" THEN o.error ELSE s.f.lastError
        s1 == [s EXCEPT !.f.had404 = had, !.f.lastError = last,
                        !.h.countNamed = @ \/ NamesCount(s, o),
                        !.h.cursorNamed = @ \/ NamesCursor(s, o)]
    IN  CASE o.k = "throw" ->
               [s1 EXCEPT !.pc = "done", !.result = [thrown |-> o.error]]
          [] o.k = "continue" /\ s.f.qi < Len(s.f.queryIds) ->
               [s1 EXCEPT !.f.qi = @ + 1, !.f.attempt = 0, !.pc = "request"]
          [] o.k = "continue" ->
               TryOnceDone(s1, [success |-> FALSE,
                                error |-> IF last = NoError THEN UnknownError(s.op)
                                          ELSE last,
                                had404 |-> had])
          [] o.k = "fail" ->
               TryOnceDone(s1, [success |-> FALSE, error |-> o.error, had404 |-> had])
          [] o.k = "success" ->
               TryOnceDone(s1, [success |-> TRUE, tweets |-> o.tweets,
                                cursor |-> o.cursor, had404 |-> had])

\* an object literal without properties
NoProperties == [x \in {} |-> x]

\* mutant: the request without count leaves the cursor out too
buildVariablesCountOrNothing(pageCount, pageCursor, includeCount) ==
    IF includeCount
    THEN [count |-> pageCount]
         @@ (IF pageCursor # None THEN [cursor |-> pageCursor] ELSE NoProperties)
    ELSE NoProperties

\* getBookmarkFolderTimelinePaged.buildVariables, and the variables object of
\* getBookmarksPaged.fetchPage (includeCount is true): the properties that
\* depend on the call
buildVariables(pageCount, pageCursor, includeCount) ==
    (IF includeCount THEN [count |-> pageCount] ELSE NoProperties)
    @@ (IF pageCursor # None THEN [cursor |-> pageCursor] ELSE NoProperties)

\* the request of the candidate at hand: its url names the candidate's query
\* id and carries the variables (getLikes: userId and count)
Request(s) ==
    [queryId |-> s.f.queryIds[s.f.qi],
     variables |-> IF s.op = "Likes" THEN [count |-> s.f.pageCount]
                   ELSE buildVariables(s.f.pageCount, s.f.pageCursor,
                                       s.f.includeCount)]

\* what the history records of a transport call that ended as resp
Observe(s, resp) ==
    [s EXCEPT !.wire = resp, !.h.calls = IF s.f.attempt = 0 THEN 1 ELSE @ + 1,
              !.h.total = IF @ = Uncounted THEN @ ELSE @ + 1,
              !.h.sent = Request(s), !.h.waited = Nil]

\* the candidate's final response: which kind the history records
ObserveFinal(s, resp) ==
    LET is404 == resp.kind = "http" /\ resp.status = 404
    IN  [s EXCEPT !.response = IF resp.kind = "http" THEN resp ELSE Nil,
                  !.h.saw404 = @ \/ is404, !.h.sawOther = @ \/ ~is404]

\* mutant: fetchWithRetry catches what fetchWithTimeout raises and retries it
AfterTransportRetriesThrow(s, resp) ==
    IF /\ s.op # "Likes"
       /\ \/ resp.kind = "http" /\ RetryAgain(resp.status, s.f.attempt)
          \/ resp.kind = "throw" /\ s.f.attempt < maxRetries
    THEN [Observe(s, resp) EXCEPT !.pc = "backoff"]
    ELSE AfterCandidate(ObserveFinal(Observe(s, resp), resp), resp)

\* fetchWithRetry after `await this.fetchWithTimeout(url, init)`; getLikes
\* calls fetchWithTimeout itself
AfterTransport(s, resp) ==
    IF s.op # "Likes" /\ resp.kind = "http" /\ RetryAgain(resp.status, s.f.attempt)
    THEN [Observe(s, resp) EXCEPT !.pc = "backoff"]
    ELSE AfterCandidate(ObserveFinal(Observe(s, resp), resp), resp)

(***************************************************************************)
(* extractTweetId: src/src/lib/extract-tweet-id.ts and the copy that       *)
(* matches with TWEET_URL_REGEX.  A string is a sequence of pieces: a host *)
(* name, a slash, a run of word characters, a digit, another character.    *)
(***************************************************************************)
WordPieces == {"status", "i", "web", "u", "7", "8"}
\* \w+ matches the piece
IsWord(piece) == piece \in WordPieces
\* the piece in lower case (the i flag)
LowerCase(piece) ==
    CASE piece = "TWITTER.COM" -> "twitter.com"
      [] piece = "X.COM" -> "x.com"
      [] OTHER -> piece
\* the piece at index j, or the end of the string
At(str, j) == IF j \in 1..Len(str) THEN str[j] ELSE "$"

RECURSIVE WordRun(_, _)
\* how many pieces \w+ takes from index j on
WordRun(str, j) == IF IsWord(At(str, j)) THEN 1 + WordRun(str, j + 1) ELSE 0
RECURSIVE DigitRun(_, _)
\* how many pieces \d+ takes from index j on
DigitRun(str, j) == IF IsDigit(At(str, j)) THEN 1 + DigitRun(str, j + 1) ELSE 0

\* /(?:twitter\.com|x\.com)\/\w+\/status\/(\d+)/ tried at index i: the index
\* the group starts at, 0 without a match
UrlMatchAt(str, i) ==
    LET k == WordRun(str, i + 2)
    IN  IF /\ At(str, i) \in {"twitter.com", "x.com"}
           /\ At(str, i + 1) = "/"
           /\ k >= 1
           /\ At(str, i + 2 + k) = "/"
           /\ At(str, i + 3 + k) = "status"
           /\ At(str, i + 4 + k) = "/"
           /\ IsDigit(At(str, i + 5 + k))
        THEN i + 5 + k ELSE 0

\* /(?:twitter\.com|x\.com)\/(?:\w+\/status|i\/web\/status)\/(\d+)/i tried at
\* index i
TweetUrlRegexAt(str, i) ==
    LET k == WordRun(str, i + 2)
        host == /\ LowerCase(At(str, i)) \in {"twitter.com", "x.com"}
                /\ At(str, i + 1) = "/"
    IN  IF /\ host /\ k >= 1
           /\ At(str, i + 2 + k) = "/"
           /\ At(str, i + 3 + k) = "status"
           /\ At(str, i + 4 + k) = "/"
           /\ IsDigit(At(str, i + 5 + k))
        THEN i + 5 + k
        ELSE IF /\ host
                /\ At(str, i + 2) = "i" /\ At(str, i + 3) = "/"
                /\ At(str, i + 4) = "web" /\ At(str, i + 5) = "/"
                /\ At(str, i + 6) = "status" /\ At(str, i + 7) = "/"
                /\ IsDigit(At(str, i + 8))
        THEN i + 8 ELSE 0

\* the group of the leftmost match, given where each index matches; the
\* input without a match
FirstGroup(str, starts) ==
    IF \A i \in 1..Len(str) : starts[i] = 0 THEN str
    ELSE LET i == CHOOSE j \in 1..Len(str) :
                      starts[j] # 0 /\ \A l \in 1..(j - 1) : starts[l] = 0
         IN  SubSeq(str, starts[i], starts[i] + DigitRun(str, starts[i]) - 1)

\* extractTweetId of src/lib/extract-tweet-id.ts
extractTweetId(input) ==
    FirstGroup(input, [i \in 1..Len(input) |-> UrlMatchAt(input, i)])

\* extractTweetId of the copy with TWEET_URL_REGEX
extractTweetIdExec(input) ==
    FirstGroup(input, [i \in 1..Len(input) |-> TweetUrlRegexAt(input, i)])

\* the strings the function is called with: text, a host, a path, an id and
\* a rest, each present, absent or misshapen
IdParts == SeqsUpTo({"7", "8"}, MaxIdLen) \cup {<<"u">>}
ExtractInputs ==
    {a \o b \o c \o d \o e :
        a \in {<<>>, <<"https://">>, <<"u">>},
        b \in {<<>>, <<"x.com", "/">>, <<"twitter.com", "/">>, <<"X.COM", "/">>,
               <<"x.com">>},
        c \in {<<>>, <<"u", "/", "status", "/">>,
               <<"i", "/", "web", "/", "status", "/">>,
               <<"u", "7", "/", "status", "/">>, <<"status", "/">>,
               <<"u", "/", "status">>, <<"/", "status", "/">>},
        d \in IdParts,
        e \in {<<>>, <<"?", "u">>, <<"/", "u">>,
               <<" ", "x.com", "/", "u", "/", "status", "/", "8">>}}

\* no call made yet on input
NoExtract == [input |-> <<>>, copy |-> "none", calls |-> 0, first |-> <<>>, again |-> <<>>]

\* a copy of the function by name
Apply(copy, input) ==
    IF copy = "extractTweetId" THEN extractTweetId(input)
    ELSE extractTweetIdExec(input)

(***************************************************************************)
(* unbookmark: src/src/lib/twitter-client-bookmarks.ts.                    *)
(***************************************************************************)
\* the query id the cache holds for DeleteBookmark, before and after a refresh
DeleteIds == {"resolved", "refreshed"}

\* the answers to a DeleteBookmark request: a raise, refusals with a body, a
\* body that does not parse, and bodies with and without provider errors
UnbookmarkResponses ==
    {Thrown, Unparseable}
    \cup [kind : {"http"}, status : {404, 403, 503},
          body : {Body(pad, "Internal error") : pad \in Paddings}]
    \cup [kind : {"http"}, status : {200}, json : {TRUE},
          errors : {<<>>, <<"Internal error">>, <<"Internal error", "Over capacity">>}]

\* unbookmark not called yet
NoUnbookmark ==
    [pc |-> "idle", cached |-> "resolved", queryId |-> None, requests |-> <<>>,
     responses |-> <<>>, refreshes |-> 0, result |-> Nil]

\* `${TWITTER_API_BASE}/${queryId}/DeleteBookmark` with the body built last
OperationRequest(m) ==
    [url |-> "DeleteBookmark", path |-> m.queryId, body |-> m.queryId]
\* TWITTER_GRAPHQL_POST_URL with the body built last
GenericRequest(m) ==
    [url |-> "graphql", path |-> None, body |-> m.queryId]

\* this.fetchWithTimeout(url, ...) is called
Sent(m, request) == [m EXCEPT !.requests = Append(@, request)]

\* parseResponse: what its promise settles with
parseResponse(resp) ==
    IF resp.status # 200
    THEN [k |-> "return", value |-> Failure(HttpBodyError(resp.status, resp.body))]
    ELSE IF ~resp.json
    THEN [k |-> "throw", error |-> ExceptionError("Unexpected token in JSON")]
    ELSE IF Len(resp.errors) > 0
    THEN [k |-> "return", value |-> Failure(JoinedErrors(resp.errors))]
    ELSE [k |-> "return", value |-> [success |-> TRUE]]

\* `return parseResponse(...)`: the promise is returned without await, so
\* what it raises is not caught by the try block around the return
Settled(m, outcome) ==
    [m EXCEPT !.pc = "done",
              !.result = IF outcome.k = "return" THEN outcome.value
                         ELSE [thrown |-> outcome.error]]

\* unbookmark after `await this.getQueryId('DeleteBookmark')`
UnbookmarkResolved(m) ==
    LET m1 == [m EXCEPT !.queryId = getQueryId(m.cached)]
    IN  Sent([m1 EXCEPT !.pc = IF m.pc = "id" THEN "first" ELSE "second"],
             OperationRequest(m1))

\* mutant: the request is made again after every refusal
AfterUnbookmarkResponseAnyRefusal(m, resp) ==
    LET m1 == [m EXCEPT !.responses = Append(@, resp)]
    IN  IF resp.kind = "throw"
        THEN [m1 EXCEPT !.pc = "done",
                        !.result = Failure(ExceptionError(resp.message))]
        ELSE IF m.pc = "first" /\ resp.status # 200
        THEN [m1 EXCEPT !.pc = "refresh"]
        ELSE IF m.pc = "second" /\ resp.status # 200
        THEN Sent([m1 EXCEPT !.pc = "third"], GenericRequest(m1))
        ELSE Settled(m1, parseResponse(resp))

\* unbookmark after `await this.fetchWithTimeout(...)`, for the first, the
\* second and the third request
AfterUnbookmarkResponse(m, resp) ==
    LET m1 == [m EXCEPT !.responses = Append(@, resp)]
    IN  IF resp.kind = "throw"
        THEN [m1 EXCEPT !.pc = "done",
                        !.result = Failure(ExceptionError(resp.message))]
        ELSE IF m.pc = "first" /\ resp.status = 404
        THEN [m1 EXCEPT !.pc = "refresh"]
        ELSE IF m.pc = "second" /\ resp.status = 404
        THEN Sent([m1 EXCEPT !.pc = "third"], GenericRequest(m1))
        ELSE Settled(m1, parseResponse(resp))

\* unbookmark after `await this.refreshQueryIds()`
UnbookmarkRefreshed(m, id) ==
    [m EXCEPT !.cached = id, !.refreshes = @ + 1, !.pc = "id2"]

(***************************************************************************)
(* The bookmarks command: src/src/commands/bookmarks.ts.                   *)
(***************************************************************************)
\* an option that was not given, and one given with the string v
Absent == [given |-> FALSE, value |-> <<>>]
Given(v) == [given |-> TRUE, value |-> v]
\* the option is a non-empty string (`cmdOpts.maxPages ? ... : ...`)
Truthy(option) == option.given /\ option.value # <<>>
Undefined == [undefined |-> TRUE]

\* the values the command line gives --count and --max-pages
OptionChars == {"0", "2", "x"}
OptionValues == {Absent} \cup {Given(v) : v \in SeqsUpTo(OptionChars, MaxOptionLen)}

\* the command before it is invoked
NoCommand ==
    [pc |-> "idle", cmdOpts |-> Nil, cookies |-> Nil, count |-> Undefined,
     maxPages |-> Undefined, client |-> FALSE, stderr |-> <<>>,
     exited |-> FALSE, exitCode |-> 0, printed |-> Nil]

\* the action handler down to `await ctx.resolveCredentialsFromOptions(opts)`
Invoked(s, o) ==
    [s EXCEPT !.cli =
        [NoCommand EXCEPT
            !.pc = "credentials", !.cmdOpts = o,
            !.count = parseInt(IF Truthy(o.count) THEN o.count.value
                               ELSE <<"2", "0">>),
            !.maxPages = IF Truthy(o.maxPages) THEN parseInt(o.maxPages.value)
                         ELSE Undefined]]

\* console.error(message); process.exit(1)
Exit(s, message) ==
    [s EXCEPT !.cli.pc = "exited", !.cli.stderr = Append(@, message),
              !.cli.exited = TRUE, !.cli.exitCode = 1]

\* a number that is not a positive integer: !Number.isFinite(n) || n <= 0
NotPositive(n) == ~NumberIsFinite(n) \/ n.value <= 0

\* the handler after `await ctx.resolveCredentialsFromOptions(opts)`, down to
\* process.exit or to the first await of the fetch; folderId is what
\* extractBookmarkFolderId made of the option
Validated(s, cookies, folderId) ==
    LET o == s.cli.cmdOpts
        count == s.cli.count
        mp == s.cli.maxPages
        s0 == [s EXCEPT !.cli.cookies = cookies]
        s1 == [s0 EXCEPT !.cli.client = TRUE]
    IN  IF ~cookies.authToken \/ ~cookies.ct0
        THEN Exit(s0, "Missing required credentials")
        ELSE IF mp # Undefined /\ ~o.all
        THEN Exit(s0, "--max-pages requires --all.")
        ELSE IF ~o.all /\ NotPositive(count)
        THEN Exit(s0, "Invalid --count. Expected a positive integer.")
        ELSE IF mp # Undefined /\ NotPositive(mp)
        THEN Exit(s0, "Invalid --max-pages. Expected a positive integer.")
        ELSE IF Truthy(o.folderId) /\ folderId = Nil
        THEN Exit(s1, "Invalid --folder-id.")
        ELSE EnterLoop([s1 EXCEPT
                 !.cli.pc = "fetch",
                 !.limit = IF o.all THEN Infinity ELSE count.value,
                 !.maxPages = IF o.all /\ mp # Undefined THEN mp.value ELSE 0])

\* the handler after `await client.get...(...)`
Finished(s) ==
    IF s.result.success
    THEN [s EXCEPT !.cli.pc = "printed", !.cli.printed = s.result.tweets]
    ELSE Exit(s, "Failed to fetch bookmarks")

(***************************************************************************)
(* The state after construction, and the steps.                            *)
(***************************************************************************)
\* a budget below zero
Negative == 0 - 2
Limits == (0..MaxLimit) \cup {Infinity, Negative}
MaxPagesValues == 0..MaxPagesFetched

InitClient ==
    /\ op \in Ops
    /\ primary \in PrimaryIds(op)
    /\ pc = "idle"
    /\ limit = 0 /\ maxPages = 0
    /\ seen = {} /\ tweets = <<>> /\ cursor = None /\ pagesFetched = 0
    /\ page = Nil /\ result = Nil
    /\ f = Frame(1, 0, None)
    /\ firstAttempt = Nil /\ secondAttempt = Nil
    /\ response = Nil /\ wire = Nil
    /\ h = NoHistory
    /\ provider = Nil
    /\ log = <<>>
    /\ other = Nil
    /\ cli = NoCommand

Init == InitClient /\ extract = NoExtract /\ mutation = NoUnbookmark

\* getBookmarksPaged(lim, {maxPages: mp}) / getBookmarkFolderTimelinePaged(...)
CallPaged(L, M) ==
    /\ pc = "idle" /\ op # "Likes"
    /\ \E lim \in L, mp \in M :
          Install(EnterLoop([State EXCEPT !.limit = lim, !.maxPages = mp]))

\* getBookmarksPaged(lim) / getBookmarkFolderTimelinePaged(folderId, lim),
\* called while the provider holds the collection pr
CallPagedAgainst(L, P) ==
    /\ pc = "idle" /\ op # "Likes"
    /\ \E lim \in L, pr \in P :
          Install(EnterLoop([State EXCEPT !.limit = lim, !.maxPages = 0,
                                          !.provider = pr]))

\* getBookmarksPaged(lim) / getBookmarkFolderTimelinePaged(folderId, lim),
\* with the transport calls of its page requests counted
CallPagedCounted(L) ==
    /\ pc = "idle" /\ op # "Likes"
    /\ \E lim \in L :
          Install(EnterLoop([State EXCEPT !.limit = lim, !.maxPages = 0,
                                          !.h.total = 0]))

\* getLikes(count) up to `await this.getCurrentUser()`
CallLikes ==
    /\ pc = "idle" /\ op = "Likes"
    /\ \E count \in 1..MaxLimit :
          Install([State EXCEPT !.limit = count, !.pc = "user"])

\* getLikes after `await this.getCurrentUser()`
CurrentUser ==
    /\ pc = "user"
    /\ \E ok \in BOOLEAN :
          IF ok
          THEN Install([State EXCEPT !.pc = "resolve", !.f = Frame(1, limit, None)])
          ELSE Install([State EXCEPT !.pc = "done",
                  !.result = Failure([type |-> "text",
                                      text |-> "Could not determine current user"])])

\* the bindings of the previous page request are gone and its history ends
\* when the first pass of a page request starts to run
StartPass(s) ==
    IF s.f.pass = 1
    THEN [s EXCEPT !.page = Nil, !.firstAttempt = Nil, !.secondAttempt = Nil,
                   !.response = Nil, !.wire = Nil,
                   !.h = [NoHistory EXCEPT
                              !.passes = 1,
                              !.total = IF s.h.total = Uncounted THEN Uncounted
                                        ELSE 0]]
    ELSE [s EXCEPT !.response = Nil, !.wire = Nil]

\* the history of inputs is kept only where it was started
Record(s, e) == IF s.log = <<>> THEN s ELSE [s EXCEPT !.log = Append(@, e)]

\* fetchPage / tryOnce from `const queryIds = await this.get...QueryIds()` to
\* the first candidate's request
Resolved(s) ==
    [StartPass(s) EXCEPT
        !.f.queryIds = queryIdsFor(s.op, getQueryId(s.primary)),
        !.f.qi = 1, !.f.attempt = 0, !.pc = "request", !.h.runs = @ + 1]

\* fetchPage / tryOnce after `const queryIds = await this.get...QueryIds()`
\* for invocations that have fetched fewer than cap pages
ResolveIdsWithin(cap) ==
    /\ pc = "resolve"
    /\ pagesFetched < cap
    /\ Install(Record(Resolved(State), [kind |-> "ids", primary |-> primary]))

ResolveIds == ResolveIdsWithin(MaxPagesFetched)

\* the transport answers (or raises) and the code runs to its next await
Transport(R) ==
    /\ pc = "request"
    /\ \E resp \in R :
          Install(AfterTransport(Record(State, [kind |-> "response", response |-> resp]),
                                 resp))

\* fetchWithRetry after `await new Promise((resolve) => setTimeout(resolve, backoffMs))`
BackedOff(s) == [s EXCEPT !.f.attempt = @ + 1, !.wire = Nil, !.pc = "request"]

\* the wait that ends was set for ms milliseconds
Waited(s, ms) == [BackedOff(s) EXCEPT !.h.waited = [ms |-> ms]]

\* the wait ends; its length was computed from the answer at hand and, with
\* no usable header, a random number of J
Backoff(J) ==
    /\ pc = "backoff"
    /\ \E ms \in backoffMs(wire, f.attempt, J) :
          Install(Record(Waited(State, ms), [kind |-> "wait"]))

\* fetchWithRefresh / getLikes after `await this.refreshQueryIds()`
\* the refresh has left p in the cache and the second pass is called
Refreshed(s, p) ==
    [s EXCEPT !.primary = p,
              !.f = Frame(2, s.f.pageCount, s.f.pageCursor),
              !.pc = "resolve",
              !.h.refreshes = @ + 1, !.h.passes = @ + 1,
              !.h.firstOnly404 = s.h.saw404 /\ ~s.h.sawOther,
              !.h.saw404 = FALSE, !.h.sawOther = FALSE,
              !.h.countNamed = FALSE]

Refresh ==
    /\ pc = "refresh"
    /\ \E p \in RefreshedIds(op, primary) :
          Install(Record(Refreshed(State, p), [kind |-> "refresh", primary |-> p]))

\* the pagination driver of bookmarks and bookmark folders, for every limit
\* and page ceiling
Next ==
    \/ CallPaged(Limits, MaxPagesValues)
    \/ ResolveIds
    \/ Transport(DriverResponses(op))
    \/ Refresh

InitPaged == Init /\ op # "Likes"

Spec == InitPaged /\ [][Next]_vars

\* the page requests of an unbounded fetch and of getLikes, for every kind of
\* answer
NextFetch ==
    \/ CallPaged({Infinity}, {0})
    \/ CallLikes
    \/ CurrentUser
    \/ ResolveIds
    \/ Transport(FetchResponses(op))
    \/ Backoff({0})
    \/ Refresh

SpecFetch == Init /\ [][NextFetch]_vars

\* the Transient Retry Wrapper under one page request, for every header
\* value and every random number
NextRetry ==
    \/ CallPaged({1}, {0})
    \/ ResolveIds
    \/ Transport(RetryResponses)
    \/ Backoff(Jitter)

InitRetry == Init /\ op = "Bookmarks" /\ primary = "resolved"

SpecRetry == InitRetry /\ [][NextRetry]_vars

\* the answers a counted page request is run against: one of each kind that
\* the code tells apart when it decides whether to call again
CallResponses(o) ==
    {Thrown, NotFound, Unparseable,
     [kind |-> "http", status |-> 503, body |-> Body(0, "Over capacity")]}
    \cup {[kind |-> "http", status |-> 403, body |-> Body(0, m)] : m \in Messages(o)}
    \cup ErrorsOnly(o)
    \cup CleanPageResponses({[present |-> TRUE, tweets |-> <<"t1">>, cursor |-> None]})

\* one page request of bookmarks and of a bookmark folder with its transport
\* calls counted, for every kind of answer
NextCalls ==
    \/ CallPagedCounted({1})
    \/ ResolveIds
    \/ Transport(CallResponses(op))
    \/ Backoff({0})
    \/ Refresh

SpecCalls == InitPaged /\ [][NextCalls]_vars

\* `bird bookmarks` with the options o; --folder-id is given when the client
\* is asked for a folder
Invoke(V) ==
    /\ cli.pc = "idle" /\ pc = "idle"
    /\ \E count \in V, mp \in V, all \in BOOLEAN :
          Install(Invoked(State,
                          [count |-> count, maxPages |-> mp, all |-> all,
                           folderId |-> IF op = "BookmarkFolderTimeline"
                                        THEN Given(<<"2">>) ELSE Absent]))

\* the credentials are resolved, with or without each cookie, and the
\* handler runs on
Credentials ==
    /\ cli.pc = "credentials"
    /\ \E cookies \in [authToken : BOOLEAN, ct0 : BOOLEAN],
          folderId \in {Nil, [id |-> <<"2">>]} :
          Install(Validated(State, cookies, folderId))

\* the fetch has returned
Finish == cli.pc = "fetch" /\ pc = "done" /\ Install(Finished(State))

\* the answers the command's fetch is run against: a refusal and a last page
CommandResponses ==
    {[kind |-> "http", status |-> 403, body |-> Body(0, "Internal error")]}
    \cup CleanPageResponses({[present |-> TRUE, tweets |-> <<"t1">>, cursor |-> None]})

NextCommand ==
    \/ Invoke(OptionValues)
    \/ Credentials
    \/ ResolveIds
    \/ Transport(CommandResponses)
    \/ Finish

SpecCommand == InitPaged /\ [][NextCommand]_vars

\* extractTweetId(input), by either copy
Extract ==
    /\ extract.calls = 0
    /\ \E copy \in {"extractTweetId", "extractTweetIdExec"} :
          Install([State EXCEPT !.extract.copy = copy, !.extract.calls = 1,
                                !.extract.first = Apply(copy, extract.input)])

\* extractTweetId(extractTweetId(input)), by the same copy
ExtractAgain ==
    /\ extract.calls = 1
    /\ Install([State EXCEPT !.extract.calls = 2,
                             !.extract.again = Apply(extract.copy, extract.first)])

NextExtract == Extract \/ ExtractAgain

InitExtract ==
    /\ InitClient /\ op = "Bookmarks" /\ primary = "resolved"
    /\ mutation = NoUnbookmark
    /\ \E input \in ExtractInputs : extract = [NoExtract EXCEPT !.input = input]

SpecExtract == InitExtract /\ [][NextExtract]_vars

\* unbookmark(tweetId) up to `await this.getQueryId('DeleteBookmark')`
CallUnbookmark ==
    /\ mutation.pc = "idle"
    /\ Install([State EXCEPT !.mutation.pc = "id"])

\* getQueryId answers, and the request is made
UnbookmarkQueryId ==
    /\ mutation.pc \in {"id", "id2"}
    /\ Install([State EXCEPT !.mutation = UnbookmarkResolved(mutation)])

\* the transport answers the request (or raises)
UnbookmarkTransport ==
    /\ mutation.pc \in {"first", "second", "third"}
    /\ \E resp \in UnbookmarkResponses :
          Install([State EXCEPT !.mutation = AfterUnbookmarkResponse(mutation, resp)])

\* refreshQueryIds returns: the cache holds a new id, or the one it held
UnbookmarkRefresh ==
    /\ mutation.pc = "refresh"
    /\ \E id \in DeleteIds :
          Install([State EXCEPT !.mutation = UnbookmarkRefreshed(mutation, id)])

NextUnbookmark ==
    \/ CallUnbookmark
    \/ UnbookmarkQueryId
    \/ UnbookmarkTransport
    \/ UnbookmarkRefresh

InitUnbookmark ==
    /\ InitClient /\ op = "Bookmarks" /\ primary = "resolved"
    /\ extract = NoExtract
    /\ \E id \in DeleteIds : mutation = [NoUnbookmark EXCEPT !.cached = id]

SpecUnbookmark == InitUnbookmark /\ [][NextUnbookmark]_vars

\* the pagination driver for budgets around the page size, against pages of
\* up to pageSize items
NextSizes ==
    \/ CallPaged(SizeLimits, {0})
    \/ ResolveIds
    \/ Transport(CleanPageResponses(SizedInstructions(f.pageCount, Len(tweets))))

SpecSizes == InitPaged /\ [][NextSizes]_vars

\* the pagination driver with a bounded budget, against every fixed
\* collection
NextCollect ==
    \/ CallPagedAgainst(1..MaxLimit, Collections)
    \/ ResolveIds
    \/ Transport({Served(provider, f.pageCursor)})

SpecCollect == InitPaged /\ [][NextCollect]_vars

\* the pagination driver without a page ceiling, followed for up to
\* MaxLoopPages pages against every fixed collection
NextLoop ==
    \/ CallPagedAgainst({Infinity, MaxLimit}, Collections)
    \/ ResolveIdsWithin(MaxLoopPages)
    \/ Transport({Served(provider, f.pageCursor)})

SpecLoop == InitPaged /\ [][NextLoop]_vars

(***************************************************************************)
(* Two invocations on one client.  Each call has its own bindings of the   *)
(* function's locals; the query id cache belongs to the client.  The       *)
(* variables hold the invocation that runs, other holds the one that is    *)
(* suspended at its await.                                                 *)
(***************************************************************************)
\* mutant: seen as a field of the client (this.seen)
OwnedWithoutSeen ==
    {"pc", "limit", "maxPages", "tweets", "cursor", "pagesFetched", "page",
     "result", "f", "firstAttempt", "secondAttempt", "response", "wire", "h",
     "log"}

\* what a call declares for itself: const seen, const tweets, let cursor,
\* let pagesFetched, the parameters, and the locals of the closures it calls
Owned ==
    {"pc", "limit", "maxPages", "seen", "tweets", "cursor", "pagesFetched",
     "page", "result", "f", "firstAttempt", "secondAttempt", "response",
     "wire", "h", "log"}

Locals(s) == [k \in Owned |-> s[k]]

\* the suspended invocation o goes on, on the client as s has left it
Resume(s, o) == [k \in DOMAIN s |-> IF k \in DOMAIN o THEN o[k] ELSE s[k]]

\* two calls made without awaiting the first: each runs to its first await
CallConcurrently(L) ==
    /\ pc = "idle" /\ op # "Likes" /\ other = Nil
    /\ \E lim1 \in L, lim2 \in L :
          LET started(lim) ==
                  EnterLoop([State EXCEPT
                      !.limit = lim,
                      !.log = <<[kind |-> "call", primary |-> primary]>>])
          IN  Install([started(lim2) EXCEPT !.other = Locals(started(lim1))])

\* the invocation that runs is suspended at its await, or has returned, and
\* the other one goes on
Switch ==
    /\ other # Nil
    /\ Install(Resume([State EXCEPT !.other = Locals(State)], other))

\* the transport calls an invocation has made
Calls(lg) == SelectSeq(lg, LAMBDA e : e.kind = "response")

\* what the provider answers the two with: it fails an invocation's first
\* MaxPairCalls calls in any way, and serves the page from then on
PairResponses(lg) ==
    (IF Len(Calls(lg)) < MaxPairCalls
     THEN {NotFound,
           [kind |-> "http", status |-> 403, body |-> Body(0, "Internal error")],
           [kind |-> "http", status |-> 503, body |-> Body(0, "Over capacity")]}
     ELSE {})
    \cup CleanPageResponses({[present |-> TRUE, tweets |-> <<"t1">>, cursor |-> None]})

NextPair ==
    \/ CallConcurrently({1, Infinity})
    \/ ResolveIds
    \/ Transport(PairResponses(log))
    \/ Backoff({0})
    \/ Refresh
    \/ Switch

InitPair == Init /\ op = "BookmarkFolderTimeline"

SpecPair == InitPair /\ [][NextPair]_vars

(***************************************************************************)
(* Properties of the pagination driver.                                    *)
(***************************************************************************)
HasPage == page # Nil
Returned == pc = "done" /\ "success" \in DOMAIN result
Bounded == pc # "idle" /\ isFinite(limit) /\ limit > 0
Ids(tw) == {tw[i] : i \in 1..Len(tw)}
NoRepeat(tw) == \A i, j \in 1..Len(tw) : i # j => tw[i] # tw[j]

\* C1: with a bounded budget N > 0 the driver's item list never holds more
\* than N items, and a Success result carries at most N items.
C1_AtMostLimit ==
    Bounded =>
        /\ Len(tweets) <= limit
        /\ (Returned /\ result.success => Len(result.tweets) <= limit)

\* C1 witness: a first page with two new items reached a driver whose budget
\* is one, and the driver returned one item.
C1_Witness ==
    /\ Bounded /\ limit = 1 /\ Returned /\ result.success
    /\ pagesFetched = 1 /\ HasPage /\ page.success
    /\ Len(page.tweets) = 2 /\ page.tweets[1] # page.tweets[2]
    /\ Len(result.tweets) = 1

\* C2: the result list never holds one identity twice, and the identity set
\* is exactly the set of the identities in the list.
C2_NoDuplicates ==
    /\ NoRepeat(tweets)
    /\ seen = Ids(tweets)
    /\ (Returned /\ result.success => NoRepeat(result.tweets))

\* C2 witness: a second page that repeats, twice, the identity the first page
\* brought.
C2_Witness ==
    /\ Returned /\ result.success /\ pagesFetched = 2 /\ HasPage /\ page.success
    /\ Len(tweets) = 1 /\ page.tweets = <<tweets[1], tweets[1]>>

RECURSIVE NewIds(_, _)
\* the identities of a page that sn does not hold, each once, in page order
NewIds(pageTweets, sn) ==
    IF pageTweets = <<>> THEN <<>>
    ELSE IF Head(pageTweets) \in sn THEN NewIds(Tail(pageTweets), sn)
    ELSE <<Head(pageTweets)>> \o NewIds(Tail(pageTweets), sn \cup {Head(pageTweets)})

\* C3: the result list only grows by appending: a page appends its new
\* identities in page order (all of them, or as many as the budget takes) and
\* nothing else; a page of seen identities changes nothing; no other step
\* touches the list.
C3_AppendOnly ==
    [][IF pagesFetched' = pagesFetched + 1
       THEN LET new == NewIds(page'.tweets, seen)
            IN  \E k \in 0..Len(new) :
                   /\ tweets' = tweets \o SubSeq(new, 1, k)
                   /\ k = Len(new) \/ (isFinite(limit') /\ Len(tweets') >= limit')
       ELSE tweets' = tweets]_vars

\* C3 witness: the second page brought a seen identity, then a new one, which
\* went to the end of the list.
C3_Witness ==
    /\ pagesFetched = 2 /\ HasPage /\ page.success
    /\ Len(tweets) = 3 /\ Len(page.tweets) = 2
    /\ page.tweets[1] = tweets[1] /\ page.tweets[2] = tweets[3]

\* C4: a successful page whose continuation token is the token its request
\* carried ends the invocation in that iteration: Success is returned and no
\* step (no network call) follows.
C4_EchoStops ==
    h.echoed => Returned /\ result = Success(tweets) /\ ~ENABLED Next

\* C4 witness: an unbounded fetch without page ceiling whose second page is
\* not empty and echoes the token it was asked with.
C4_Witness ==
    /\ h.echoed /\ pc = "done" /\ ~isFinite(limit) /\ maxPages = 0
    /\ pagesFetched = 2 /\ HasPage /\ Len(page.tweets) > 0 /\ page.cursor = cursor

\* C5: a page request that fails ends the invocation with Failure carrying
\* that error and no items, whatever was collected, and nothing follows.
C5_FailurePropagates ==
    HasPage /\ ~page.success =>
        /\ pc = "done" /\ result = [success |-> FALSE, error |-> page.error]
        /\ ~ENABLED Next

\* C5 witness: the second page request failed after the first page had
\* brought items.
C5_Witness ==
    /\ HasPage /\ ~page.success /\ pagesFetched = 1 /\ Len(tweets) > 0
    /\ pc = "done" /\ ~result.success

(***************************************************************************)
(* Properties of one page request.                                         *)
(***************************************************************************)
Folder == op = "BookmarkFolderTimeline"

\* C6: whatever the transport, the body parsing, the identifier discovery
\* and the forced refresh do, the bookmarks and bookmark-folder functions end
\* with a Success or Failure value, never with an exception.
C6_NeverThrows ==
    pc = "done" /\ op # "Likes" => Returned /\ "thrown" \notin DOMAIN result

\* C6 witness: after a forced refresh every candidate's request raised, and
\* the function returned Failure with the exception's message.
C6_Witness ==
    /\ pc = "done" /\ op # "Likes" /\ h.refreshes = 1
    /\ wire = Thrown /\ result = Failure(ExceptionError(Thrown.message))

\* C7 as claimed: in one page request the forced refresh is invoked at most
\* once and the candidate set is run at most twice, for bookmarks, folders
\* and likes.
C7_Original == h.refreshes <= 1 /\ h.runs <= 2

\* C7: in one page request the forced refresh is invoked at most once and
\* fetchPage (getLikes.tryOnce) is run at most twice; the candidate set is
\* run at most twice for bookmarks and likes and at most four times for
\* folders, where a pass may run it again without the count parameter.
C7_RefreshOnce ==
    /\ h.refreshes <= 1
    /\ h.passes <= 2
    /\ h.runs <= IF Folder THEN 4 ELSE 2

\* C7 witness: a folder page request whose two passes both failed with
\* not-found, each after running the candidates with and without count.
C7_Witness ==
    /\ Folder /\ pc = "done" /\ h.refreshes = 1 /\ h.passes = 2 /\ h.runs = 4
    /\ ~secondAttempt.success /\ secondAttempt.had404

C9_SecondPassDecides ==
    secondAttempt # Nil =>
        /\ h.refreshes = 1
        /\ LET out == IF op = "Likes" THEN result ELSE page
           IN  IF secondAttempt.success
               THEN /\ out.success /\ out.tweets = secondAttempt.tweets
                    /\ (op # "Likes" => out.cursor = secondAttempt.cursor)
               ELSE out = Failure(secondAttempt.error)

\* C9 witness: every candidate returned 404 in the first pass, and the second
\* pass brought a page with items.
C9_Witness ==
    /\ op = "Bookmarks" /\ h.firstOnly404 /\ h.refreshes = 1
    /\ secondAttempt # Nil /\ secondAttempt.success
    /\ Len(secondAttempt.tweets) > 0 /\ page = secondAttempt
    /\ ~firstAttempt.success

\* C10: one run of fetchWithRetry makes at most 3 transport calls; it waits
\* for another call only after a response whose status is retryable and
\* while fewer than 3 calls were made; any other response, and the third
\* response whatever its status, is returned without a wait.
C10_RetryCeiling ==
    /\ h.calls <= 3
    /\ (pc = "backoff" =>
            wire.status \in retryable /\ h.calls < 3 /\ h.calls = f.attempt + 1)
    /\ (pc = "request" /\ f.attempt > 0 => h.calls = f.attempt /\ h.calls < 3)
    /\ (pc # "backoff" /\ wire # Nil /\ wire.kind = "http" /\ op # "Likes" =>
            response = wire /\ (wire.status \notin retryable \/ h.calls = 3))

\* C10 witness: the third response of a run had a retryable status and was
\* returned.
C10_Witness ==
    /\ op # "Likes" /\ h.calls = 3 /\ wire # Nil /\ wire.kind = "http"
    /\ wire.status = 503 /\ response = wire /\ pc # "backoff"

\* C11 as claimed: when the Page Fetcher has seen a candidate's transport call
\* raise, the wrapper had retried the request up to the ceiling: that run made
\* 3 transport calls.
C11_Original ==
    op # "Likes" /\ wire # Nil /\ wire.kind = "throw" => h.calls = maxRetries + 1

\* C11: a transport call that raises is not retried by fetchWithRetry,
\* whichever attempt of the run it is: no backoff wait follows, the Page
\* Fetcher records the exception's message as the last error and goes on to
\* the next candidate with a first attempt, or ends the pass when none is
\* left.
C11_ThrowNotRetried ==
    [][pc = "request" /\ op # "Likes" /\ wire'.kind = "throw" =>
          /\ pc' # "backoff"
          /\ h'.calls = f.attempt + 1
          /\ f'.lastError = ExceptionError(wire'.message)
          /\ IF f.qi < Len(f.queryIds)
             THEN pc' = "request" /\ f'.qi = f.qi + 1 /\ f'.attempt = 0
             ELSE pc' # "request"]_vars

\* C11 witness: the second call of a run (after one retryable status) raised,
\* and the next candidate is being requested.
C11_Witness ==
    /\ op # "Likes" /\ wire # Nil /\ wire.kind = "throw" /\ h.calls = 2
    /\ pc = "request" /\ f.qi = 2 /\ f.attempt = 0

(***************************************************************************)
(* Further properties of the pagination driver.                            *)
(***************************************************************************)
\* C12: with a page ceiling k >= 1 the driver never counts more than k
\* fetched pages, and with the k-th page it returns Success with the items
\* collected and takes no further step (no request for page k + 1), whether
\* the item budget is bounded or not.
C12_PageCeiling ==
    pc # "idle" /\ maxPages >= 1 =>
        /\ pagesFetched <= maxPages
        /\ (pagesFetched = maxPages =>
                Returned /\ result = Success(tweets) /\ ~ENABLED Next)

\* C12 witness: ceiling 1, unbounded budget, and a first page with items and
\* a continuation token.
C12_Witness ==
    /\ maxPages = 1 /\ pc = "done" /\ ~isFinite(limit) /\ pagesFetched = 1
    /\ HasPage /\ page.success /\ Len(page.tweets) > 0 /\ page.cursor # None
    /\ result = Success(page.tweets)

\* C15: a successful page without items ends the invocation with Success
\* carrying what the earlier pages brought, whatever token the page carries,
\* and no step follows.
C15_EmptyPageStops ==
    HasPage /\ page.success /\ Len(page.tweets) = 0 =>
        Returned /\ result = Success(tweets) /\ ~ENABLED Next

\* C15 witness: without page ceiling, the second page is empty and carries a
\* token that is not the one it was asked with, after a first page of items.
C15_Witness ==
    /\ HasPage /\ page.success /\ Len(page.tweets) = 0 /\ pagesFetched = 2
    /\ maxPages = 0 /\ page.cursor # None /\ page.cursor # cursor
    /\ Len(tweets) > 0 /\ pc = "done" /\ result = Success(tweets)

\* C17: a page request carries the driver's cursor through all its passes
\* and attempts; the first carries none; the cursor changes only when a page
\* is delivered; and the request for the next page starts only in the step
\* that has counted and merged the page before it, with exactly that page's
\* token.
C17_Sequential ==
    [][/\ (pc' \in {"resolve", "request", "backoff", "refresh"} =>
             /\ f'.pageCursor = cursor'
             /\ (pagesFetched' = 0 => cursor' = None))
       /\ (cursor' # cursor \/ f'.pageCursor # f.pageCursor =>
             pagesFetched' = pagesFetched + 1)
       /\ (pagesFetched' # pagesFetched /\ pc' # "done" =>
             /\ pagesFetched' = pagesFetched + 1 /\ pc = "request"
             /\ pc' = "resolve" /\ f'.pass = 1
             /\ page'.success /\ Ids(page'.tweets) \subseteq seen'
             /\ cursor' = page'.cursor /\ cursor' # None)]_vars

\* C17 witness: the second page is being requested with the token the first
\* page returned.
C17_Witness ==
    /\ pc = "request" /\ pagesFetched = 1 /\ cursor # None
    /\ f.pageCursor = cursor /\ Len(tweets) > 0

(***************************************************************************)
(* Properties of the driver at the fixed page size.                        *)
(***************************************************************************)
Requesting == op # "Likes" /\ pc \in {"resolve", "request", "backoff", "refresh"}

\* C14: a page request asks for 20 items when the budget is unbounded, and
\* for the lesser of 20 and what is left of the budget N when it is bounded:
\* always between 1 and 20; with N = 25 the first request asks for 20 and,
\* when 20 items are held, the second for 5.
C14_RequestSize ==
    Requesting =>
        /\ f.pageCount >= 1 /\ f.pageCount <= 20
        /\ (~isFinite(limit) => f.pageCount = 20)
        /\ (isFinite(limit) /\ limit - Len(tweets) >= 20 => f.pageCount = 20)
        /\ (isFinite(limit) /\ limit - Len(tweets) < 20 =>
                f.pageCount = limit - Len(tweets))
        /\ (limit = 25 /\ pagesFetched = 0 => f.pageCount = 20)
        /\ (limit = 25 /\ Len(tweets) = 20 => f.pageCount = 5)

\* C14 witness: with N = 25 and 20 items held, the second page is being
\* requested with size 5.
C14_Witness ==
    /\ Requesting /\ pc = "request" /\ limit = 25 /\ pagesFetched = 1
    /\ Len(tweets) = 20 /\ f.pageCount = 5

\* the scenario of C16: unbounded, the first page brought 20 items and the
\* token "c1", and the second page, asked with "c1", brought 5 items and "c1"
EchoScenario ==
    /\ pc # "idle" /\ ~isFinite(limit) /\ maxPages = 0 /\ pagesFetched = 2
    /\ Len(tweets) >= 20 /\ SubSeq(tweets, 1, 20) = Window(1, 20)
    /\ HasPage /\ page.success /\ Len(page.tweets) = 5 /\ page.cursor = "c1"
    /\ h.echoed

\* C16 as claimed: in the scenario the result has 20 items and the loop has
\* halted after the second page.
C16_Original ==
    EchoScenario =>
        Returned /\ result.success /\ Len(result.tweets) = 20
        /\ ~ENABLED NextSizes

\* C16: in the scenario the second page is merged by identity before the
\* stop check: the result is the 20 items of the first page followed by those
\* of the second page's items that the first page did not carry (20 items
\* when all five repeat, up to 25), and the loop has halted after the second
\* page.
C16_EchoMerged ==
    EchoScenario =>
        /\ Returned
        /\ result = Success(Window(1, 20) \o NewIds(page.tweets, Ids(Window(1, 20))))
        /\ Len(result.tweets) >= 20 /\ Len(result.tweets) <= 25
        /\ ~ENABLED NextSizes

\* C16 witness: the scenario with a second page that repeats the last item of
\* the first and brings four new ones.
C16_Witness ==
    /\ EchoScenario /\ pc = "done" /\ Len(tweets) = 24
    /\ page.tweets = Window(20, 5)

(***************************************************************************)
(* Properties of the driver against a fixed collection.                    *)
(***************************************************************************)
RECURSIVE Reach(_, _, _)
\* the tokens of the pages reachable from the page of cur by following tokens
Reach(pr, cur, visited) ==
    IF cur \in visited THEN visited
    ELSE LET next == pr[cur].cursor
         IN  IF next = None THEN visited \cup {cur}
             ELSE Reach(pr, next, visited \cup {cur})

\* the identities of the provider's collection
CollectionIds(pr) == UNION {Ids(pr[c].tweets) : c \in Reach(pr, None, {})}

RECURSIVE ChainIds(_, _, _)
\* the identities on the first k pages, from the page of cur on
ChainIds(pr, cur, k) ==
    IF k = 0 THEN {}
    ELSE Ids(pr[cur].tweets) \cup ChainIds(pr, pr[cur].cursor, k - 1)

BoundedSuccess ==
    Bounded /\ maxPages = 0 /\ Returned /\ result.success /\ provider # Nil

\* C13 as claimed: a Success with fewer than N items means that the
\* provider's collection holds fewer than N distinct identities; otherwise
\* the result has exactly N items.
C13_Original ==
    BoundedSuccess =>
        IF Len(result.tweets) < limit
        THEN Cardinality(CollectionIds(provider)) < limit
        ELSE Len(result.tweets) = limit

\* C13: a Success with fewer than N items means that the last page fetched
\* carried no token, repeated the token it was asked with, or had no items,
\* and that the pages fetched up to it hold fewer than N distinct identities,
\* all of them in the result; otherwise the result has exactly N items.
C13_ExactOrStopped ==
    BoundedSuccess =>
        IF Len(result.tweets) < limit
        THEN /\ HasPage /\ page.success
             /\ page.cursor = None \/ h.echoed \/ Len(page.tweets) = 0
             /\ Ids(result.tweets) = ChainIds(provider, None, pagesFetched)
             /\ Cardinality(ChainIds(provider, None, pagesFetched)) < limit
        ELSE Len(result.tweets) = limit

\* C13 witness: with N = 2 the second page is empty and carries a token, and
\* the driver returned one item of a collection that holds more.
C13_Witness ==
    /\ BoundedSuccess /\ limit = 2 /\ Len(result.tweets) = 1
    /\ pagesFetched = 2 /\ Len(page.tweets) = 0 /\ page.cursor # None
    /\ Cardinality(CollectionIds(provider)) >= 2

(***************************************************************************)
(* Properties of the folder's page fetcher.                                *)
(***************************************************************************)
\* the fetchPage call of the current pass has returned a failure
PassFailed ==
    IF f.pass = 1 THEN firstAttempt # Nil /\ ~firstAttempt.success
    ELSE secondAttempt # Nil /\ ~secondAttempt.success

\* C19 as claimed: when a folder pass whose requests carried count has ended
\* in failure and some candidate of it reported an error naming the count
\* parameter, the candidates were run again without count before fetchPage
\* returned.
C19_Original ==
    Folder /\ PassFailed /\ h.countNamed => ~f.includeCount

\* C20 as claimed: once a folder request that carries a cursor has failed
\* with an error naming the cursor parameter, the invocation has ended with
\* the distinct message and no step follows.
C20_Original ==
    Folder /\ h.cursorNamed =>
        pc = "done" /\ result = Failure(CursorRejected) /\ ~ENABLED NextFetch

(***************************************************************************)
(* Properties of two invocations on one client.                            *)
(***************************************************************************)
\* the client before any call, as s has its cache
Idle(s) ==
    [s EXCEPT !.pc = "idle", !.limit = 0, !.maxPages = 0, !.seen = {},
              !.tweets = <<>>, !.cursor = None, !.pagesFetched = 0,
              !.page = Nil, !.result = Nil, !.f = Frame(1, 0, None),
              !.firstAttempt = Nil, !.secondAttempt = Nil, !.response = Nil,
              !.wire = Nil, !.h = NoHistory, !.log = <<>>, !.other = Nil]

RECURSIVE Run(_, _, _)
\* the invocation s run on with no other invocation on the client, fed with
\* the responses and the refresh outcomes of in, as far as they reach; alone
\* it reads its client's cache and takes the steps that need no input,
\* otherwise it reads the cache values of in and waits as often as in says
Run(s, in, alone) ==
    CASE s.pc = "backoff" /\ alone -> Run(BackedOff(s), in, alone)
      [] s.pc = "backoff" /\ ~alone /\ in.wait # <<>> ->
            Run(BackedOff(s), [in EXCEPT !.wait = Tail(@)], alone)
      [] s.pc = "resolve" /\ s.pagesFetched < MaxPagesFetched /\ alone ->
            Run(Resolved(s), in, alone)
      [] s.pc = "resolve" /\ s.pagesFetched < MaxPagesFetched /\ ~alone
                          /\ in.ids # <<>> ->
            Run(Resolved([s EXCEPT !.primary = Head(in.ids).primary]),
                [in EXCEPT !.ids = Tail(@)], alone)
      [] s.pc = "request" /\ in.response # <<>> ->
            Run(AfterTransport(s, Head(in.response).response),
                [in EXCEPT !.response = Tail(@)], alone)
      [] s.pc = "refresh" /\ in.refresh # <<>> ->
            Run(Refreshed(s, Head(in.refresh).primary),
                [in EXCEPT !.refresh = Tail(@)], alone)
      [] OTHER -> s

Inputs(lg, kind) == SelectSeq(lg, LAMBDA e : e.kind = kind)

\* the invocation whose locals are inv, run from its call on its inputs
Rerun(inv, alone) ==
    Run(EnterLoop([Idle(State) EXCEPT !.primary = inv.log[1].primary,
                                      !.limit = inv.limit]),
        [k \in {"ids", "response", "refresh", "wait"} |-> Inputs(inv.log, k)],
        alone)

\* the two invocations
Invocations ==
    IF other = Nil THEN {} ELSE {other, [k \in DOMAIN other |-> State[k]]}

Compared ==
    {"pc", "seen", "tweets", "cursor", "pagesFetched", "page", "result", "f"}

\* C18 as claimed: an invocation that has returned has returned what it
\* returns when it runs alone on the client and gets the same responses.
C18_Original ==
    \A inv \in Invocations :
        inv.pc = "done" =>
            LET r == Rerun(inv, TRUE)
            IN  r.pc = "done" => r.result = inv.result

\* C18: at every point of every interleaving, the identity set, item list,
\* cursor, page counter and the other locals of each invocation are what the
\* invocation alone computes from its own inputs: the responses it got, the
\* outcomes of its refreshes and the cached query ids it read; the steps of
\* the other invocation reach it through the cached id only.
C18_Isolated ==
    \A inv \in Invocations :
        LET r == Rerun(inv, FALSE)
        IN  \A k \in Compared \cap DOMAIN inv : r[k] = inv[k]

\* C18 witness: both invocations have returned, each after transport calls
\* made while the other was suspended at its own, and one of them read a
\* cached id that the other's refresh had put there.
C18_Witness ==
    /\ other # Nil /\ pc = "done" /\ other.pc = "done"
    /\ result.success /\ other.result.success
    /\ Inputs(log, "refresh") = <<>> /\ Inputs(other.log, "refresh") # <<>>
    /\ \E i \in 1..Len(log) :
          log[i].kind = "ids" /\ log[i].primary # log[1].primary
    /\ \E i \in 1..Len(log), j \in 1..Len(other.log) :
          /\ log[i].kind = "response" /\ other.log[j].kind = "response"
          /\ log[i].response.status = 503

(***************************************************************************)
(* Properties of the candidate list and of one pass over it.               *)
(***************************************************************************)
\* a pass has its candidate list and is requesting from it
InPass == pc \in {"request", "backoff"}
Member(x, list) == \E i \in 1..Len(list) : list[i] = x

\* C21: whatever the cache holds as primary id, the candidate list of a pass
\* is the primary followed by the operation's fixed fallbacks that differ
\* from it: the primary is first, no id occurs twice, and every fixed
\* fallback is in the list, in the first pass and in the pass after a forced
\* refresh.
C21_CandidateList ==
    InPass =>
        /\ f.queryIds[1] = primary
        /\ NoRepeat(f.queryIds)
        /\ \A i \in 1..Len(Fallbacks(op)) : Member(Fallbacks(op)[i], f.queryIds)
        /\ f.queryIds = <<primary>> \o SelectSeq(Fallbacks(op), LAMBDA x : x # primary)

\* after a forced refresh left the last fallback in the cache, the pass asks
\* from a list that names it once, first
C21_Witness ==
    /\ InPass /\ h.refreshes = 1 /\ op = "Bookmarks"
    /\ primary = Fallbacks(op)[2]
    /\ f.queryIds = <<Fallbacks(op)[2], Fallbacks(op)[1]>>

\* what the pass that f belongs to has returned, once the step is taken
PassResultNext == IF f.pass = 1 THEN firstAttempt' ELSE secondAttempt'
\* a 2xx response whose body parses and holds a page structure
ParsedPage(resp) ==
    /\ resp.kind = "http" /\ resp.status = 200 /\ resp.json
    /\ resp.instructions.present

\* C24: a pass of the bookmarks and folder Page Fetchers asks its candidates
\* in list order, the primary first, each in one run of the Retry Wrapper:
\* the first request goes to candidate 1, every request goes to the candidate
\* at hand, a transient retry stays with it and the only move is to the next
\* one; a 2xx response with a parseable page structure ends the pass with
\* Success (its items and token) and no further request, and a 404 from a
\* candidate that is not the last is followed by the next candidate's request.
C24_InOrder ==
    [][/\ (pc = "resolve" /\ pc' = "request") => f'.qi = 1
       /\ pc = "backoff" => f'.qi = f.qi /\ f'.queryIds = f.queryIds
       /\ (pc = "request" /\ op # "Likes") =>
            /\ h'.sent.queryId = f.queryIds[f.qi]
            /\ pc' = "backoff" => f'.qi = f.qi /\ f'.queryIds = f.queryIds
            /\ (pc' = "request" /\ h'.runs = h.runs) =>
                  f'.qi = f.qi + 1 /\ f'.queryIds = f.queryIds
            /\ (pc' = "request" /\ h'.runs # h.runs) =>
                  Folder /\ ~f'.includeCount /\ f'.qi = 1
            /\ ParsedPage(wire') =>
                  /\ pc' \notin {"request", "backoff"}
                  /\ PassResultNext.success
                  /\ PassResultNext.tweets = wire'.instructions.tweets
                  /\ PassResultNext.cursor = wire'.instructions.cursor
            /\ (wire'.kind = "http" /\ wire'.status = 404
                /\ f.qi < Len(f.queryIds)) =>
                  /\ pc' = "request" /\ f'.qi = f.qi + 1 /\ h'.runs = h.runs
      ]_vars

\* the first of three candidates answered 404 and the second a page: the
\* pass succeeded and the third was never asked
C24_Witness ==
    /\ op = "Bookmarks" /\ primary = "resolved"
    /\ firstAttempt # Nil /\ firstAttempt.success /\ firstAttempt.had404
    /\ h.passes = 1 /\ h.sent # Nil /\ h.sent.queryId = Fallbacks(op)[1]
    /\ firstAttempt.tweets = <<"t1">>

\* the step is a candidate's final response, with a status that is neither
\* 2xx nor 404
FinalRefusal ==
    /\ pc = "request" /\ op # "Likes" /\ pc' # "backoff"
    /\ wire'.kind = "http" /\ wire'.status \notin {200, 404}
\* cut is the first n characters of text
FirstChars(cut, text, n) ==
    /\ cut.pad + cut.kept = Min(n, text.pad + text.kept)
    /\ cut.pad <= text.pad /\ cut.kept <= text.kept
    /\ cut.kept > 0 => cut.pad = text.pad /\ cut.text = text.text

\* C25: when the final response of a candidate, after the transient retries,
\* has a non-2xx status other than 404, the run of the candidate loop returns
\* Failure at that candidate, with an error made of the status and the first
\* 200 characters of the body, and no further candidate of that run is
\* requested.
C25_RefusalEndsPass ==
    [][FinalRefusal =>
         /\ ~(pc' \in {"request", "backoff"} /\ h'.runs = h.runs)
         /\ h'.returned # Nil /\ ~h'.returned.success
         /\ h'.returned.had404 = f.had404
         /\ h'.returned.error.type = "httpBody"
         /\ h'.returned.error.status = wire'.status
         /\ FirstChars(h'.returned.error.body, wire'.body, 200)
      ]_vars

\* the second of three candidates refused with a body longer than 200
\* characters: the pass failed with the body cut and the third was not asked
C25_Witness ==
    /\ op = "Bookmarks" /\ primary = "resolved" /\ pc = "refresh"
    /\ h.sent.queryId = Fallbacks(op)[1]
    /\ wire.status = 403 /\ wire.body.pad + wire.body.kept > 200
    /\ firstAttempt.error = h.returned.error
    /\ firstAttempt.error.body.pad + firstAttempt.error.body.kept = 200

\* a 2xx response whose body parses, with a provider error list and no page
\* structure
OnlyErrors(resp) ==
    /\ resp.kind = "http" /\ resp.status = 200 /\ resp.json
    /\ Len(resp.errors) > 0 /\ ~resp.instructions.present
\* a final response after which the loop goes on: a raise, a 404, a body
\* that does not parse, a bare error list
GoesOn(resp) ==
    \/ resp.kind = "throw"
    \/ resp.kind = "http" /\ resp.status = 404
    \/ resp.kind = "http" /\ resp.status = 200 /\ ~resp.json
    \/ OnlyErrors(resp)
\* the step is the final response of the candidate at hand
FinalResponse == pc = "request" /\ op # "Likes" /\ pc' # "backoff"
LastCandidate == f.qi = Len(f.queryIds)

\* C26 as claimed: when the candidates are exhausted without Success after a
\* bare provider error list was recorded as last error, the joined messages
\* are what the caller gets.
C26_Original ==
    [][(/\ FinalResponse /\ LastCandidate /\ GoesOn(wire')
        /\ f.lastError.type = "joined" /\ pc' = "done")
       => /\ ~result'.success /\ result'.error.type = "joined"]_vars

\* C26: a candidate's 2xx response with a non-empty provider error list and
\* no page structure records the joined messages as last error and the loop
\* goes on to the next candidate; a run that exhausts its candidates returns
\* Failure with the error recorded last, and the joined messages reach the
\* caller when the bare error list came from the last candidate and that run
\* ends the invocation (for a folder, unless they name the cursor parameter
\* of a request that carried one).
C26_LastErrorSurfaced ==
    [][/\ (FinalResponse /\ OnlyErrors(wire')) =>
            /\ f'.lastError = JoinedErrors(wire'.errors)
            /\ ~LastCandidate =>
                  pc' = "request" /\ f'.qi = f.qi + 1 /\ h'.runs = h.runs
            /\ (LastCandidate /\ pc' = "done") =>
                  \/ result' = Failure(JoinedErrors(wire'.errors))
                  \/ /\ Folder /\ f.pageCursor # None
                     /\ Member(CursorMsg, wire'.errors)
                     /\ result' = Failure(CursorRejected)
       /\ (FinalResponse /\ LastCandidate /\ GoesOn(wire')) =>
            /\ f'.lastError # NoError
            /\ h'.returned =
                  [success |-> FALSE, error |-> f'.lastError, had404 |-> f'.had404]
      ]_vars

\* the first two of three candidates failed otherwise and the last answered
\* a bare error list: the caller got the joined messages
C26_Witness ==
    /\ op = "Bookmarks" /\ primary = "resolved" /\ pc = "done"
    /\ h.sent.queryId = Fallbacks(op)[2]
    /\ OnlyErrors(wire)
    /\ result = Failure(JoinedErrors(<<"Internal error">>))

\* C27: in the bookmarks and folder Page Fetchers a 2xx response that holds
\* a page structure together with a non-empty provider error list is a
\* Success: the pass returns the page's items and continuation token without
\* any error, and asks no further candidate.
C27_ErrorsWithPage ==
    [][(FinalResponse /\ ParsedPage(wire') /\ Len(wire'.errors) > 0) =>
         /\ PassResultNext =
               [success |-> TRUE,
                tweets |-> parseTweetsFromInstructions(wire'.instructions),
                cursor |-> extractCursorFromInstructions(wire'.instructions),
                had404 |-> f.had404]
         /\ h'.returned = PassResultNext
         /\ f'.lastError \in {NoError, f.lastError}
         /\ pc' \notin {"request", "backoff", "refresh"}
         /\ pc' = "done" => result'.success
      ]_vars

\* the first of two folder candidates answered a page with an error list:
\* the items and the token were delivered and the second was not asked
C27_Witness ==
    /\ Folder /\ primary = "resolved"
    /\ firstAttempt # Nil /\ firstAttempt.success
    /\ firstAttempt.tweets = <<"t1">> /\ firstAttempt.cursor = "c1"
    /\ h.sent # Nil /\ h.sent.queryId = "resolved"
    /\ wire # Nil /\ ParsedPage(wire) /\ wire.errors = <<"Internal error">>
    /\ tweets = <<"t1">> /\ cursor = "c1"

\* the variables of a request carry the token c, or no token when c is None
Carries(variables, c) ==
    IF c = None THEN "cursor" \notin DOMAIN variables
    ELSE "cursor" \in DOMAIN variables /\ variables.cursor = c

\* C30: every request sent for a page-fetch call carries the call's cursor:
\* for every candidate, every transient retry, the pass after the forced
\* refresh and the folder's run without the page-size parameter, the
\* request's variables hold the token the driver asked the page with, and
\* hold no cursor parameter when the driver asked without one.
C30_CursorCarried ==
    [][(pc = "request" /\ op # "Likes") =>
         /\ f.pageCursor = cursor
         /\ Carries(h'.sent.variables, cursor)
         /\ h'.sent.queryId = f.queryIds[f.qi]
      ]_vars

\* a folder's second page, after the forced refresh, asked again without the
\* page-size parameter and retried once: the request carries the token alone
C30_Witness ==
    /\ Folder /\ pc = "request" /\ cursor = "c1"
    /\ h.refreshes = 1 /\ ~f.includeCount /\ f.attempt = 1
    /\ h.sent # Nil /\ h.sent.variables = [cursor |-> "c1"]

(***************************************************************************)
(* Properties of the wait between two attempts of the Retry Wrapper.       *)
(***************************************************************************)
\* the header value is a count of whole seconds: digits and nothing else
WholeSeconds(str) == str # <<>> /\ \A i \in 1..Len(str) : IsDigit(str[i])
RECURSIVE Seconds(_)
\* the count the digits denote
Seconds(str) ==
    IF str = <<>> THEN 0
    ELSE 10 * Seconds(SubSeq(str, 1, Len(str) - 1)) + DigitValue(str[Len(str)])
\* the answer at hand has no retry-after header
NoHint == "retryAfter" \notin DOMAIN wire
\* the answer at hand has a calendar date as retry-after header
DateHint == "retryAfter" \in DOMAIN wire /\ wire.retryAfter = HttpDate
\* ms is an exponential backoff of the retry at attempt index a
ExponentialWait(ms, a) == ms >= 500 * 2 ^ a /\ ms < 500 * 2 ^ a + 500

\* C28: when the answer that is retried carries a delay hint of s whole
\* seconds, the wait before the next attempt is s * 1000 ms, with no
\* exponential term and no jitter; when it carries no hint, or a calendar
\* date, the wait is the exponential backoff of the attempt.
C28_HintHonoured ==
    [][pc = "backoff" =>
         /\ (~NoHint /\ WholeSeconds(wire.retryAfter)) =>
               h'.waited.ms = Seconds(wire.retryAfter) * 1000
         /\ (NoHint \/ DateHint) => ExponentialWait(h'.waited.ms, f.attempt)
      ]_vars

\* the second retry waited the 19 seconds its answer asked for
C28_Witness ==
    /\ pc = "request" /\ f.attempt = 2
    /\ h.waited # Nil /\ h.waited.ms = 19000

\* C29: a retry at attempt index a without a delay hint happens at a = 0 or
\* a = 1 and waits a whole number of milliseconds from 500 * 2^a up to, not
\* including, 500 * 2^a + 500: from 500 at the first retry, from 1000, twice
\* that, at the second.
C29_BackoffRange ==
    [][(pc = "backoff" /\ NoHint) =>
         /\ f.attempt \in {0, 1}
         /\ h'.waited.ms \in Int
         /\ h'.waited.ms >= 500 * 2 ^ f.attempt
         /\ h'.waited.ms < 500 * 2 ^ f.attempt + 500
         /\ f.attempt = 0 => h'.waited.ms >= 500
         /\ f.attempt = 1 => h'.waited.ms >= 2 * 500
      ]_vars

\* the second retry, without a hint, waited the longest it can
C29_Witness ==
    /\ pc = "request" /\ f.attempt = 2
    /\ h.waited # Nil /\ h.waited.ms = 1499

(***************************************************************************)
(* Properties of the bookmarks command.                                    *)
(***************************************************************************)
\* the handler has run past the credentials, which were present
CredentialsPresent ==
    /\ cli.pc \notin {"idle", "credentials"}
    /\ cli.cookies.authToken /\ cli.cookies.ct0

\* C22 as claimed: with credentials present, the command invoked with
\* --max-pages and without --all has printed an error that contains
\* "--max-pages requires --all" and exited with code 1, with no client
\* created and no bookmark fetch started.
C22_Original ==
    (CredentialsPresent /\ cli.cmdOpts.maxPages.given /\ ~cli.cmdOpts.all) =>
        /\ cli.exited /\ cli.exitCode = 1
        /\ cli.stderr = <<"--max-pages requires --all.">>
        /\ ~cli.client
        /\ pc = "idle"

(***************************************************************************)
(* Properties of extractTweetId.                                           *)
(***************************************************************************)
\* a status URL of twitter.com or x.com starts at index i of str: the host,
\* a user name or i/web, /status/ and digits; the index its digits start at
StatusUrlAt(str, i) ==
    LET k == WordRun(str, i + 2)
        tail(j) == /\ At(str, j) = "/" /\ At(str, j + 1) = "status"
                   /\ At(str, j + 2) = "/" /\ IsDigit(At(str, j + 3))
    IN  IF LowerCase(At(str, i)) \notin {"twitter.com", "x.com"} \/ At(str, i + 1) # "/"
        THEN 0
        ELSE IF k >= 1 /\ tail(i + 2 + k) THEN i + 5 + k
        ELSE IF At(str, i + 2) = "i" /\ At(str, i + 3) = "/"
                /\ At(str, i + 4) = "web" /\ tail(i + 5)
        THEN i + 8
        ELSE 0
HasStatusUrl(str) == \E i \in 1..Len(str) : StatusUrlAt(str, i) # 0
\* the run of digits after /status/ of the first status URL of str
StatusDigits(str) ==
    LET i == CHOOSE j \in 1..Len(str) :
                 StatusUrlAt(str, j) # 0 /\ \A l \in 1..(j - 1) : StatusUrlAt(str, l) = 0
        from == StatusUrlAt(str, i)
    IN  SubSeq(str, from, from + DigitRun(str, from) - 1)

\* C23 as claimed: extractTweetId returns the run of digits following
\* /status/ for an input that contains a twitter.com or x.com status URL,
\* returns every other input unchanged, and applied to its own result
\* returns that result.
C23_Original ==
    /\ extract.calls >= 1 =>
          extract.first = IF HasStatusUrl(extract.input)
                          THEN StatusDigits(extract.input) ELSE extract.input
    /\ extract.calls = 2 => extract.again = extract.first

(***************************************************************************)
(* The driver's loop condition.                                            *)
(***************************************************************************)
\* C31: with a bounded budget N no page request is under way while N or more
\* items are held: once the target is met the driver has returned Success
\* with the items, whatever token the last page carried, and with N <= 0 it
\* has returned Success with an empty list without a pass or a transport call.
C31_NoRequestAtTarget ==
    (pc # "idle" /\ isFinite(limit)) =>
        /\ (Requesting => Len(tweets) < limit)
        /\ (Len(tweets) >= limit =>
                pc = "done" /\ result = Success(tweets))
        /\ (limit <= 0 =>
                /\ result = Success(<<>>)
                /\ pagesFetched = 0 /\ h = NoHistory /\ wire = Nil)

\* C31 witness: with N = 2 and no page ceiling the first page brought two
\* items and a fresh continuation token, and the driver returned them after
\* that one page.
C31_Witness ==
    /\ limit = 2 /\ maxPages = 0 /\ pc = "done"
    /\ pagesFetched = 1 /\ HasPage /\ page.success
    /\ page.cursor # None /\ ~h.echoed
    /\ result = Success(tweets) /\ Len(tweets) = 2

(***************************************************************************)
(* Termination of the driver without a page ceiling.                       *)
(***************************************************************************)
RECURSIVE TokenAfter(_, _)
\* the token the driver holds after k pages of the collection pr
TokenAfter(pr, k) ==
    IF k = 0 THEN None ELSE pr[TokenAfter(pr, k - 1)].cursor

\* the driver is at the head of its loop, about to request a page of a fixed
\* collection
AtLoopHead ==
    op # "Likes" /\ pc = "resolve" /\ f.pass = 1 /\ provider # Nil /\ maxPages = 0

\* at the head of its loop the driver holds the token and the items that it
\* held there after an earlier page
BackWhereItWas ==
    /\ AtLoopHead
    /\ \E k \in 0..(pagesFetched - 1) :
          /\ TokenAfter(provider, k) = cursor
          /\ ChainIds(provider, None, k) = seen

\* C32 as claimed: without a page ceiling every invocation eventually
\* returns, whatever fixed collection of finitely many items the provider
\* serves.  The provider answers by token and the driver decides by its token
\* and its items, so an invocation that is back at the head of its loop with
\* the token and the items it held there before makes the same requests for
\* ever; an invocation that returns is never there.
C32_Original == ~BackWhereItWas

(***************************************************************************)
(* The transport calls of one page request.                                *)
(***************************************************************************)
\* the candidates of a pass, and the parameter shapes a pass can try
CandidatesOf(o) == Len(Fallbacks(o)) + 1
ShapesOf(o) == IF o = "BookmarkFolderTimeline" THEN 2 ELSE 1
\* passes x parameter shapes x candidates x attempts
CallCeiling(o) == 2 * ShapesOf(o) * CandidatesOf(o) * (maxRetries + 1)

\* C33: one page request makes at most 2 passes x 3 candidates x 3 attempts
\* = 18 transport calls for bookmarks and at most 2 passes x 2 parameter
\* shapes x 2 candidates x 3 attempts = 24 for a bookmark folder, whatever
\* the provider answers.
C33_CallsBounded ==
    h.total # Uncounted =>
        /\ h.total <= CallCeiling(op)
        /\ (op = "Bookmarks" => h.total <= 18)
        /\ (op = "BookmarkFolderTimeline" => h.total <= 24)

\* C33 witness: a page request of a bookmark folder has made 24 transport
\* calls: both passes ran both candidates with and without the count
\* parameter, and every candidate was tried three times.
C33_Witness ==
    /\ op = "BookmarkFolderTimeline" /\ h.total = 24
    /\ h.passes = 2 /\ h.runs = 4 /\ h.calls = 3

(***************************************************************************)
(* Exceptions inside the candidate loop.                                   *)
(***************************************************************************)
\* the transport call raised, or the body of a 200 could not be parsed
Raised(resp) ==
    resp # Nil /\ (resp.kind = "throw" \/ (resp.status = 200 /\ ~resp.json))
RaisedMessage(resp) ==
    IF resp.kind = "throw" THEN resp.message ELSE "Unexpected token in JSON"

\* C34: when the transport call or the body parsing of a candidate raises,
\* the Page Fetcher does not try the candidate again and does not fail the
\* pass: with candidates left it goes to the next one, the exception message
\* recorded as last error and the not-found flag as it was; after the last
\* candidate the loop returns Failure with that message and the flag as it
\* was.
C34_RaiseGoesOn ==
    [][(pc = "request" /\ op # "Likes" /\ Raised(wire')) =>
          LET e == ExceptionError(RaisedMessage(wire'))
          IN  /\ pc' # "backoff"
              /\ IF f.qi < Len(f.queryIds)
                 THEN /\ pc' = "request"
                      /\ f'.qi = f.qi + 1 /\ f'.attempt = 0
                      /\ f'.pass = f.pass /\ h'.runs = h.runs
                      /\ f'.lastError = e
                      /\ f'.had404 = f.had404
                 ELSE h'.returned =
                          [success |-> FALSE, error |-> e, had404 |-> f.had404]
      ]_vars

\* C34 witness: the first candidate's transport call raised on its first
\* attempt, and the second candidate is being requested with the message as
\* last error and the not-found flag unset.
C34_Witness ==
    /\ op # "Likes" /\ pc = "request" /\ wire = Thrown
    /\ f.qi = 2 /\ f.attempt = 0 /\ h.calls = 1
    /\ f.lastError = ExceptionError("fetch failed") /\ ~f.had404

(***************************************************************************)
(* A 200 without provider errors and without page structure.               *)
(***************************************************************************)
\* a 200 whose body parses and holds neither a provider error list nor the
\* page structure
Bare(resp) ==
    /\ resp # Nil /\ resp.kind = "http" /\ resp.status = 200 /\ resp.json
    /\ resp.errors = <<>> /\ ~resp.instructions.present

\* C35: a 200 with neither a provider error list nor a page structure is
\* returned by the candidate loop as Success with zero items and no token: no
\* other candidate is tried, and the driver returns Success with the items
\* it held, no failure being reported.
C35_BarePageStops ==
    [][(pc = "request" /\ op # "Likes" /\ Bare(wire')) =>
          /\ h'.returned = [success |-> TRUE, tweets |-> <<>>, cursor |-> None,
                            had404 |-> f.had404]
          /\ page' = h'.returned
          /\ pagesFetched' = pagesFetched + 1
          /\ tweets' = tweets
          /\ pc' = "done"
          /\ result' = Success(tweets)
      ]_vars

\* C35 witness: the second page request of an invocation that holds one item
\* was answered with such a body by its first candidate, and the driver
\* returned Success with that item.
C35_Witness ==
    /\ op # "Likes" /\ pc = "done" /\ Bare(wire)
    /\ pagesFetched = 2 /\ f.qi = 1 /\ f.pass = 1
    /\ Len(tweets) = 1 /\ result = Success(tweets)
    /\ HasPage /\ page.success /\ page.tweets = <<>> /\ page.cursor = None

(***************************************************************************)
(* Provider errors in getLikes.                                            *)
(***************************************************************************)
\* a 200 whose body parses and holds a non-empty provider error list
WithErrors(resp) ==
    /\ resp # Nil /\ resp.kind = "http" /\ resp.status = 200 /\ resp.json
    /\ Len(resp.errors) > 0

\* C36: in getLikes a 200 with a non-empty provider error list ends the pass
\* at once with Failure carrying the joined messages, with or without a page
\* structure: no other candidate is requested; the forced refresh follows
\* exactly when the pass is the first and an earlier candidate of it returned
\* 404, and otherwise getLikes returns that Failure.
C36_LikesErrorsEndPass ==
    [][(pc = "request" /\ op = "Likes" /\ WithErrors(wire')) =>
          LET joined == JoinedErrors(wire'.errors)
          IN  /\ h'.returned =
                     [success |-> FALSE, error |-> joined, had404 |-> f.had404]
              /\ f.had404 = h.saw404
              /\ IF f.pass = 1 /\ h.saw404
                 THEN pc' = "refresh"
                 ELSE pc' = "done" /\ result' = Failure(joined)
      ]_vars

\* C36 witness: the first candidate of getLikes' first pass was answered with
\* a provider error list beside a page structure, and getLikes returned
\* Failure with the joined messages without a refresh or another request.
C36_Witness ==
    /\ op = "Likes" /\ pc = "done" /\ WithErrors(wire)
    /\ wire.instructions.present
    /\ f.pass = 1 /\ f.qi = 1 /\ h.refreshes = 0
    /\ result = Failure(JoinedErrors(wire.errors))

(***************************************************************************)
(* unbookmark.                                                             *)
(***************************************************************************)
\* the i-th answer unbookmark received was a 404
Was404(i) ==
    /\ i <= Len(mutation.responses)
    /\ mutation.responses[i].kind = "http" /\ mutation.responses[i].status = 404

\* what the last answer received makes of the result: Failure with the
\* exception message when the transport raised, Failure with the status and
\* the body when the status is not 200, Failure with the joined messages when
\* the body holds provider errors, Success otherwise; a body that does not
\* parse leaves no result (the promise is rejected)
FromLastResponse(last, res) ==
    IF last.kind = "throw" THEN res = Failure(ExceptionError(last.message))
    ELSE IF last.status # 200
    THEN res = Failure([type |-> "httpBody", status |-> last.status,
                        body |-> Slice(last.body, errorBodyChars)])
    ELSE IF ~last.json THEN "thrown" \in DOMAIN res
    ELSE IF last.errors # <<>> THEN res = Failure(JoinedErrors(last.errors))
    ELSE res = [success |-> TRUE]

\* C37: unbookmark makes at most three transport requests and at most one
\* forced refresh; the second request, with the id re-resolved after the
\* refresh, is made only if the first was answered 404, and the third, to the
\* generic endpoint, only if the first and the second were both answered
\* 404; the result comes from the last answer received, and a transport
\* exception gives Failure with the exception message.
C37_UnbookmarkRequests ==
    LET n == Len(mutation.requests)
    IN  /\ n <= 3 /\ mutation.refreshes <= 1
        /\ n <= 1 => (mutation.refreshes = 1 <=> mutation.pc = "id2")
        /\ mutation.refreshes = 1 => Was404(1)
        /\ n >= 2 =>
              /\ Was404(1) /\ mutation.refreshes = 1
              /\ mutation.requests[2] =
                     [url |-> "DeleteBookmark", path |-> mutation.cached,
                      body |-> mutation.cached]
        /\ n = 3 =>
              /\ Was404(1) /\ Was404(2)
              /\ mutation.requests[3] =
                     [url |-> "graphql", path |-> None, body |-> mutation.cached]
        /\ mutation.pc = "done" =>
              /\ Len(mutation.responses) = n
              /\ FromLastResponse(mutation.responses[n], mutation.result)

\* C37 witness: the first two requests were answered 404, the third went to
\* the generic endpoint and was answered 404 too, and unbookmark returned
\* Failure made of that last answer.
C37_Witness ==
    /\ mutation.pc = "done" /\ Len(mutation.requests) = 3
    /\ Was404(1) /\ Was404(2) /\ Was404(3)
    /\ mutation.refreshes = 1
    /\ ~mutation.result.success /\ mutation.result.error.status = 404

(***************************************************************************)
(* The argument checks of the bookmarks command.                           *)
(***************************************************************************)
\* the cases in which the command is to refuse its arguments: the count it
\* read (the default when the option is absent or empty) is not a positive
\* integer and --all is absent; --max-pages is given and what the command
\* read of it is not a positive integer; the folder id check failed
BadCount == ~cli.cmdOpts.all /\ NotPositive(cli.count)
BadMaxPages ==
    /\ cli.cmdOpts.maxPages.given
    /\ (cli.maxPages = Undefined \/ NotPositive(cli.maxPages))
BadFolderId ==
    /\ cli.cmdOpts.folderId.given
    /\ \E i \in 1..Len(cli.stderr) : cli.stderr[i] = "Invalid --folder-id."

\* C38 as claimed: with credentials present the command has exited with code
\* 1, no client created and no fetch started, when --count is not a positive
\* integer and --all is absent, when --max-pages is given and is not a
\* positive integer, or when --folder-id yields no folder id; a fetch is
\* under way only if none of these holds, and with --all an invalid --count
\* is not what the command exits for.
C38_Original ==
    CredentialsPresent =>
        /\ (BadCount \/ BadMaxPages \/ BadFolderId) =>
              /\ cli.exited /\ cli.exitCode = 1
              /\ ~cli.client
              /\ pc = "idle"
        /\ cli.cmdOpts.all =>
              \A i \in 1..Len(cli.stderr) :
                  cli.stderr[i] # "Invalid --count. Expected a positive integer."

====
